---- MODULE Spec2Model ----
(***************************************************************************)
(* Model of octopy's page document model (pagexml.Page / Element), its     *)
(* post-processing filters (modules/postproc.py) and its segmentation      *)
(* adapters (modules/seg.py, modules/bls.py, modules/segment.py,           *)
(* octopy/segment.py, src/octopy/segment.py).                              *)
(*                                                                         *)
(* Python strings are sequences of one-character strings, so that          *)
(* formatting (f"{k:03d}", f"{x},{y}") is computed and not assumed.        *)
(* Python lists are sequences; an optional argument is <<>> for None and   *)
(* <<v>> for the value v.                                                  *)
(***************************************************************************)
EXTENDS Integers, Sequences, FiniteSets, TLC

VARIABLES page, flt, res, args, doc

vars == <<page, flt, res, args, doc>>

(***************************************************************************)
(* Bounds                                                                  *)
(***************************************************************************)
MaxElems == 3      \* longest element list of a page
MaxRo == 4         \* longest reading order of a page
MaxRegions == 4    \* longest region list given to a filter
MaxClasses == 2    \* most region classes of one segmentation result
MaxPolys == 2      \* most polygons reported for one region class
MaxLines == 2      \* most line records of one segmentation result

(***************************************************************************)
(* Python built-ins                                                        *)
(***************************************************************************)
Range(s) == {s[i] : i \in 1..Len(s)}

Min(a, b) == IF a < b THEN a ELSE b

Max(a, b) == IF a > b THEN a ELSE b

\* list.insert(index, x): the index is clamped, a negative one counts from the end
PyInsert(s, index, x) ==
    LET n == Len(s)
        k == IF index < 0 THEN Max(0, n + index) ELSE Min(index, n)
    IN SubSeq(s, 1, k) \o <<x>> \o SubSeq(s, k + 1, n)

\* position (1-based) of the first item equal to x, 0 when there is none
FirstIndex(s, x) ==
    IF \E i \in 1..Len(s) : s[i] = x
    THEN CHOOSE i \in 1..Len(s) : s[i] = x /\ \A j \in 1..(i - 1) : s[j] # x
    ELSE 0

\* the list without its item at the 1-based position k
DropAt(s, k) == SubSeq(s, 1, k - 1) \o SubSeq(s, k + 1, Len(s))

\* list.remove(x) when x is in the list: the first equal item goes
PyRemove(s, x) == DropAt(s, FirstIndex(s, x))

\* list.pop(index): the 1-based position that goes, 0 for an IndexError
PyPopPos(s, index) ==
    LET n == Len(s)
        k == IF index < 0 THEN n + index ELSE index
    IN IF k >= 0 /\ k < n THEN k + 1 ELSE 0

Digit(d) ==
    CASE d = 0 -> "0" [] d = 1 -> "1" [] d = 2 -> "2" [] d = 3 -> "3"
      [] d = 4 -> "4" [] d = 5 -> "5" [] d = 6 -> "6" [] d = 7 -> "7"
      [] d = 8 -> "8" [] d = 9 -> "9"

RECURSIVE NatStr(_)
\* str(n) for n >= 0
NatStr(n) == IF n < 10 THEN <<Digit(n)>> ELSE NatStr(n \div 10) \o <<Digit(n % 10)>>

\* str(n)
IntStr(n) == IF n < 0 THEN <<"-">> \o NatStr(0 - n) ELSE NatStr(n)

RECURSIVE ZeroPad(_, _)
\* format(n, "0<width>d") for n >= 0: zeros on the left up to the width
ZeroPad(s, width) == IF Len(s) >= width THEN s ELSE ZeroPad(<<"0">> \o s, width)

(***************************************************************************)
(* pagexml.types / pagexml.element                                         *)
(***************************************************************************)
\* the members of ElementType whose value has the substring 'Region'
RegionNamed ==
    {"RegionRefIndexed", "AdvertRegion", "ChartRegion", "ChemRegion",
     "CustomRegion", "GraphicRegion", "ImageRegion", "LineDrawingRegion",
     "MapRegion", "MathsRegion", "MusicRegion", "NoiseRegion",
     "SeparatorRegion", "TableRegion", "TextRegion", "UnknownRegion"}

\* Element.is_region()
is_region(element) == element.etype \in RegionNamed

\* the expression `element.is_region` of Page.add_element: the bound method
\* itself, not its result, and a bound method is true
is_region_attribute(element) == TRUE

\* Element.new
Element_new(etype, attributes) ==
    [etype |-> etype, attributes |-> attributes, elements |-> <<>>]

\* Element.add_element
Element_add_element(element, child, index) ==
    [element EXCEPT !.elements =
        IF index = <<>> THEN Append(@, child) ELSE PyInsert(@, index[1], child)]

\* Element.create_element, as the parent after the call (the child is its last item)
Element_create_element(element, etype, attributes) ==
    Element_add_element(element, Element_new(etype, attributes), <<>>)

\* len(element)
Element_len(element) == Len(element.elements)

(***************************************************************************)
(* pagexml.page                                                            *)
(***************************************************************************)
\* Page.new: no elements, empty reading order
Page_new == [elements |-> <<>>, ro |-> <<>>, raised |-> "none"]

\* an add_element that forgets the reading order
add_element_no_ro(p, element, index, reading_order) ==
    [elements |-> IF index = <<>> THEN Append(p.elements, element)
                  ELSE PyInsert(p.elements, index[1], element),
     ro |-> p.ro, raised |-> "none"]

\* Page.add_element; raised names the exception that left the call
add_element(p, element, index, reading_order) ==
    IF index = <<>>
    THEN LET els == Append(p.elements, element) IN
         IF is_region_attribute(element) /\ reading_order
         THEN IF "id" \in DOMAIN element.attributes
              THEN [elements |-> els, ro |-> Append(p.ro, element.attributes.id), raised |-> "none"]
              ELSE [elements |-> els, ro |-> p.ro, raised |-> "KeyError"]
         ELSE [elements |-> els, ro |-> p.ro, raised |-> "none"]
    ELSE LET els == PyInsert(p.elements, index[1], element) IN
         IF is_region_attribute(element) /\ reading_order
         THEN IF "id" \in DOMAIN element.attributes
              THEN [elements |-> els, ro |-> PyInsert(p.ro, index[1], element.attributes.id), raised |-> "none"]
              ELSE [elements |-> els, ro |-> p.ro, raised |-> "KeyError"]
         ELSE [elements |-> els, ro |-> p.ro, raised |-> "none"]

\* Page.create_element: the element is new and reading_order keeps its default
create_element(p, element, index) == add_element(p, element, index, TRUE)

\* Page.remove_element
remove_element(p, element) ==
    IF FirstIndex(p.elements, element) = 0
    THEN [p EXCEPT !.raised = "ValueError"]
    ELSE [p EXCEPT !.elements = PyRemove(@, element), !.raised = "none"]

\* Page.remove_element_by_index
remove_element_by_index(p, index) ==
    IF PyPopPos(p.elements, index) = 0
    THEN [p EXCEPT !.raised = "IndexError"]
    ELSE [p EXCEPT !.elements = DropAt(@, PyPopPos(p.elements, index)), !.raised = "none"]

\* Page.get_regions
get_regions(p) == SelectSeq(p.elements, is_region)

(***************************************************************************)
(* The page under edit: the element objects a caller may hold.  obj is     *)
(* the object's identity (Element defines no __eq__).                      *)
(***************************************************************************)
ElementPool ==
    { [obj |-> 1, etype |-> "TextRegion", attributes |-> [id |-> <<"r", "1">>, type |-> "paragraph"]],
      [obj |-> 2, etype |-> "ImageRegion", attributes |-> [id |-> <<"r", "2">>]],
      [obj |-> 3, etype |-> "TextRegion", attributes |-> [id |-> <<"r", "3">>, type |-> "heading"]],
      [obj |-> 4, etype |-> "TextLine", attributes |-> [id |-> <<"l", "1">>]],
      [obj |-> 5, etype |-> "Metadata", attributes |-> [custom |-> <<"x">>]] }

\* the index arguments tried: None, in range, past the end, negative
IndexArgs == {<<>>} \cup {<<i>> : i \in -1..MaxElems}

Idle == [fn |-> "none"]

NoFilter == [pc |-> "none"]

NoRes == [kind |-> "none"]

NoDoc == <<>>

InitPage ==
    /\ page = Page_new
    /\ flt = NoFilter
    /\ res = NoRes
    /\ args = Idle
    /\ doc = NoDoc

\* page.add_element(element, index): the element is not yet part of the page
AddElement ==
    \E element \in ElementPool, index \in IndexArgs :
        /\ Len(page.elements) < MaxElems
        /\ Len(page.ro) < MaxRo
        /\ element \notin Range(page.elements)
        /\ page' = add_element(page, element, index, TRUE)
        /\ UNCHANGED <<flt, res, args, doc>>

\* page.create_element(etype, index, **attributes): a new object
CreateElement ==
    \E element \in ElementPool, index \in IndexArgs :
        /\ Len(page.elements) < MaxElems
        /\ Len(page.ro) < MaxRo
        /\ element \notin Range(page.elements)
        /\ page' = create_element(page, element, index)
        /\ UNCHANGED <<flt, res, args, doc>>

\* page.remove_element(element)
RemoveElement ==
    \E element \in ElementPool :
        /\ page' = remove_element(page, element)
        /\ UNCHANGED <<flt, res, args, doc>>

\* page.remove_element_by_index(index)
RemoveElementByIndex ==
    \E index \in -1..MaxElems :
        /\ page' = remove_element_by_index(page, index)
        /\ UNCHANGED <<flt, res, args, doc>>

NextPage == AddElement \/ CreateElement \/ RemoveElement \/ RemoveElementByIndex

SpecPage == InitPage /\ [][NextPage]_vars

\* how often x occurs in the list s
Count(s, x) == Cardinality({i \in 1..Len(s) : s[i] = x})

\* C1: whenever the reading order is non-empty, the id of every region on the
\* page is in the reading order exactly once, and every id of the reading
\* order is the id of an element that is on the page.
C1_ReadingOrderInvariant ==
    Len(page.ro) > 0 =>
        /\ \A i \in 1..Len(page.elements) :
              is_region(page.elements[i]) =>
                  /\ "id" \in DOMAIN page.elements[i].attributes
                  /\ Count(page.ro, page.elements[i].attributes.id) = 1
        /\ \A j \in 1..Len(page.ro) :
              \E i \in 1..Len(page.elements) :
                  /\ "id" \in DOMAIN page.elements[i].attributes
                  /\ page.elements[i].attributes.id = page.ro[j]

\* C27: Page.add_element with reading_order=True puts the id of a
\* region-typed element into the reading order and leaves the reading order
\* as it is for an element that is no region, one without an id included: so
\* every id of the reading order is the id of a region-typed element that
\* was added, and no call fails for a missing id.
C27_OnlyRegionsEnter ==
    /\ \A j \in 1..Len(page.ro) :
          \E element \in ElementPool :
              /\ is_region(element)
              /\ "id" \in DOMAIN element.attributes
              /\ element.attributes.id = page.ro[j]
    /\ page.raised # "KeyError"

(***************************************************************************)
(* modules/postproc.py                                                     *)
(***************************************************************************)
RECURSIVE remove_loop(_, _)
\* the loop `for region in regions: if len(region) <= 1: regions.remove(region)`:
\* n is the list iterator's position, which advances by one per item handed
\* out whatever the body did to the list
remove_loop(regions, n) ==
    IF n >= Len(regions)
    THEN regions
    ELSE IF Element_len(regions[n + 1]) <= 1
         THEN remove_loop(PyRemove(regions, regions[n + 1]), n + 1)
         ELSE remove_loop(regions, n + 1)

\* pxml_remove_empty_regions: the caller's list after the call and the value returned
pxml_remove_empty_regions(regions, inplace) ==
    IF inplace
    THEN [regions |-> remove_loop(regions, 0), returned |-> <<>>]
    ELSE [regions |-> regions, returned |-> <<remove_loop(regions, 0)>>]

Coords(points) == [etype |-> "Coords", attributes |-> [points |-> points], elements |-> <<>>]

TextLine(id) == [etype |-> "TextLine", attributes |-> [id |-> id], elements |-> <<>>]

\* the region objects a caller may pass: with and without a Coords child,
\* with zero, one or two lines
RegionPool ==
    { [obj |-> 1, etype |-> "TextRegion", attributes |-> [id |-> <<"a">>],
       elements |-> <<Coords(<<"0">>)>>],
      [obj |-> 2, etype |-> "TextRegion", attributes |-> [id |-> <<"b">>],
       elements |-> <<Coords(<<"1">>)>>],
      [obj |-> 3, etype |-> "TextRegion", attributes |-> [id |-> <<"c">>],
       elements |-> <<Coords(<<"2">>), TextLine(<<"l", "1">>)>>],
      [obj |-> 4, etype |-> "TextRegion", attributes |-> [id |-> <<"d">>],
       elements |-> <<TextLine(<<"l", "2">>)>>],
      [obj |-> 5, etype |-> "ImageRegion", attributes |-> [id |-> <<"e">>],
       elements |-> <<>>],
      [obj |-> 6, etype |-> "TextRegion", attributes |-> [id |-> <<"f">>],
       elements |-> <<Coords(<<"3">>), TextLine(<<"l", "3">>), TextLine(<<"l", "4">>)>>] }

\* the lists of pairwise different objects of the set S, at most n long
RECURSIVE DistinctSeqs(_, _)
DistinctSeqs(S, n) ==
    IF n = 0
    THEN {<<>>}
    ELSE LET shorter == DistinctSeqs(S, n - 1) IN
         shorter \cup UNION {{Append(s, x) : x \in S \ Range(s)} :
                                s \in {t \in shorter : Len(t) = n - 1}}

InitFilter ==
    /\ page = Page_new
    /\ flt \in {[pc |-> "ready", given |-> s, regions |-> s, inplace |-> b, returned |-> <<>>] :
                    s \in DistinctSeqs(RegionPool, MaxRegions), b \in BOOLEAN}
    /\ res = NoRes
    /\ args = Idle
    /\ doc = NoDoc

\* a call of pxml_remove_empty_regions(regions, inplace)
RemoveEmptyRegions ==
    /\ flt.pc = "ready"
    /\ LET r == pxml_remove_empty_regions(flt.regions, flt.inplace) IN
       flt' = [flt EXCEPT !.pc = "removed", !.regions = r.regions, !.returned = r.returned]
    /\ UNCHANGED <<page, res, args, doc>>

NextFilter == RemoveEmptyRegions

SpecFilter == InitFilter /\ [][NextFilter]_vars

\* the list the caller gets: the argument itself when inplace, else the returned copy
FilterResult == IF flt.inplace THEN flt.regions ELSE flt.returned[1]

\* the number of TextLine children
LineCount(region) ==
    Cardinality({i \in 1..Len(region.elements) : region.elements[i].etype = "TextLine"})

\* C3: the list left by pxml_remove_empty_regions holds no region without a line child.
C3_NoEmptyRegionLeft ==
    flt.pc = "removed" =>
        \A i \in 1..Len(FilterResult) : LineCount(FilterResult[i]) > 0

\* C4: pxml_remove_empty_regions keeps every region that has a line child, and
\* the regions kept are in their input order.
C4_NonEmptyRegionsKept ==
    flt.pc = "removed" =>
        /\ \A i \in 1..Len(flt.given) :
              LineCount(flt.given[i]) > 0 => flt.given[i] \in Range(FilterResult)
        /\ \A i, j \in 1..Len(FilterResult) :
              i < j => FirstIndex(flt.given, FilterResult[i]) < FirstIndex(flt.given, FilterResult[j])

(***************************************************************************)
(* Segmentation adapters on kraken's Segmentation container                *)
(* (modules/segment.py, octopy/segment.py, src/octopy/segment.py).         *)
(* A mapping table is the set of its entries <<key, page type, type>>,     *)
(* the type attribute being <<>> for None.  dict entries keep their        *)
(* insertion order: res.regions is the list of its (class, regions) items. *)
(***************************************************************************)
Keys(mapping) == {t[1] : t \in mapping}

Lookup(mapping, key) == CHOOSE t \in mapping : t[1] = key

\* modules/segment.py REGION_MAPPING
REGION_MAPPING ==
    { <<"text", "TextRegion", <<"paragraph">>>>,
      <<"paragraph", "TextRegion", <<"paragraph">>>>,
      <<"image", "ImageRegion", <<>>>>,
      <<"header", "TextRegion", <<"header">>>>,
      <<"signature-mark", "TextRegion", <<"signature-mark">>>>,
      <<"catch-word", "TextRegion", <<"catch-word">>>>,
      <<"drop-capital", "TextRegion", <<"drop-capital">>>>,
      <<"separator", "SeparatorRegion", <<>>>>,
      <<"page-number", "TextRegion", <<"page-number">>>>,
      <<"footnote", "TextRegion", <<"footnote">>>>,
      <<"marginalia", "TextRegion", <<"marginalia">>>>,
      <<"table", "TableRegion", <<>>>>,
      <<"other", "TextRegion", <<"other">>>>,
      <<"Title", "TextRegion", <<"caption">>>>,
      <<"Illustration", "ImageRegion", <<>>>>,
      <<"Commentary", "TextRegion", <<"footnote">>>>,
      <<"unknown", "UnknownRegion", <<>>>> }

\* src/octopy/mappings.py SEGMENTATION_MAPPING
SEGMENTATION_MAPPING ==
    { <<"maths", "MathsRegion", <<>>>>,
      <<"graphic", "GraphicRegion", <<>>>>,
      <<"image", "ImageRegion", <<>>>>,
      <<"separator", "SeparatorRegion", <<>>>>,
      <<"table", "TableRegion", <<>>>>,
      <<"music", "MusicRegion", <<>>>>,
      <<"text", "TextRegion", <<"paragraph">>>>,
      <<"paragraph", "TextRegion", <<"paragraph">>>>,
      <<"endnote", "TextRegion", <<"endnote">>>>,
      <<"header", "TextRegion", <<"header">>>>,
      <<"heading", "TextRegion", <<"heading">>>>,
      <<"signature-mark", "TextRegion", <<"signature-mark">>>>,
      <<"catch-word", "TextRegion", <<"catch-word">>>>,
      <<"drop-capital", "TextRegion", <<"drop-capital">>>>,
      <<"page-number", "TextRegion", <<"page-number">>>>,
      <<"footnote", "TextRegion", <<"footnote">>>>,
      <<"marginalia", "TextRegion", <<"marginalia">>>>,
      <<"caption", "TextRegion", <<"caption">>>>,
      <<"other", "TextRegion", <<"other">>>>,
      <<"Title", "TextRegion", <<"caption">>>>,
      <<"Illustration", "ImageRegion", <<>>>>,
      <<"Commentary", "TextRegion", <<"footnote">>>>,
      <<"unknown", "UnknownRegion", <<>>>> }

\* octopy/util.py SEGMENTATION_CLASS_MAPPING: the fixed class-to-document-type table
SEGMENTATION_CLASS_MAPPING == SEGMENTATION_MAPPING

RECURSIVE JoinPoints(_, _)
\* ' '.join([f'{point[0]},{point[1]}' for point in coords]), from the i-th point on
JoinPoints(coords, i) ==
    IF i > Len(coords)
    THEN <<>>
    ELSE (IF i > 1 THEN <<" ">> ELSE <<>>)
         \o IntStr(coords[i][1]) \o <<",">> \o IntStr(coords[i][2])
         \o JoinPoints(coords, i + 1)

\* modules/segment.py coords_to_pagexml
coords_to_pagexml(coords) == JoinPoints(coords, 1)

\* src/octopy/util.py kraken_to_string
kraken_to_string(coords) == JoinPoints(coords, 1)

\* octopy/util.py points_to_string: the points string "x,y x,y ..."
points_to_string(coords) == JoinPoints(coords, 1)

\* the element with one more child, created by element.create_element(etype, **attributes)
WithChild(element, etype, attributes) == Element_create_element(element, etype, attributes)

\* the list with its last item replaced: the object created last was changed through its reference
SetLast(s, x) == [s EXCEPT ![Len(s)] = x]

\* a counter used as if it started at zero
k2p_region_id_zero_based(region_counter) == <<"r", "_">> \o ZeroPad(NatStr(region_counter - 1), 3)

\* modules/segment.py: f'r_{region_counter:03d}'
k2p_region_id(region_counter) == <<"r", "_">> \o ZeroPad(NatStr(region_counter), 3)

\* modules/segment.py: f'l_{line_counter:03d}'
k2p_line_id(line_counter) == <<"l", "_">> \o ZeroPad(NatStr(line_counter), 3)

\* a test that only asks whether the line has a region at all
k2p_line_in_region_any(region, line) == line.regions # {}

\* modules/segment.py: `if region.id in line.regions`
k2p_line_in_region(region, line) == region.id \in line.regions

RECURSIVE k2p_lines(_, _, _, _, _)
\* modules/segment.py: `for line in res.lines` of kraken_to_pxml, from the i-th line on
k2p_lines(region_obj, region, lines, i, line_counter) ==
    IF i > Len(lines)
    THEN [region_obj |-> region_obj, line_counter |-> line_counter]
    ELSE IF k2p_line_in_region(region, lines[i])
         THEN LET line0 == Element_new("TextLine", [id |-> k2p_line_id(line_counter)])
                  line1 == IF lines[i].boundary # <<>>
                           THEN WithChild(line0, "Coords", [points |-> coords_to_pagexml(lines[i].boundary)])
                           ELSE line0
                  line2 == IF lines[i].baseline # <<>>
                           THEN WithChild(line1, "Baseline", [points |-> coords_to_pagexml(lines[i].baseline)])
                           ELSE line1
              IN k2p_lines(Element_add_element(region_obj, line2, <<>>), region, lines, i + 1,
                           line_counter + 1)
         ELSE k2p_lines(region_obj, region, lines, i + 1, line_counter)

RECURSIVE k2p_regions(_, _, _, _, _)
\* modules/segment.py: `for region in regions` of kraken_to_pxml, from the j-th region on
k2p_regions(st, region_type, regions, j, lines) ==
    IF j > Len(regions)
    THEN st
    ELSE IF region_type \notin Keys(REGION_MAPPING)
    THEN [st EXCEPT !.raised = "KeyError"]
    ELSE LET entry == Lookup(REGION_MAPPING, region_type)
             region_obj == WithChild(
                 Element_new(entry[2], [id |-> k2p_region_id(st.region_counter), type |-> entry[3]]),
                 "Coords", [points |-> coords_to_pagexml(regions[j].boundary)])
             r == k2p_lines(region_obj, regions[j], lines, 1, st.line_counter)
         IN k2p_regions([elements |-> Append(st.elements, r.region_obj),
                         region_counter |-> st.region_counter + 1,
                         line_counter |-> r.line_counter, raised |-> "none"],
                        region_type, regions, j + 1, lines)

\* the class test without the fallback to 'unknown'
k2p_region_type_no_fallback(region_type, skip_unknown) ==
    IF region_type \notin Keys(REGION_MAPPING) /\ skip_unknown THEN <<>> ELSE <<region_type>>

\* modules/segment.py: the class test of kraken_to_pxml: <<>> for `continue`,
\* else the class whose mapping entry is used
k2p_region_type(region_type, skip_unknown) ==
    IF region_type \notin Keys(REGION_MAPPING)
    THEN IF skip_unknown THEN <<>> ELSE <<"unknown">>
    ELSE <<region_type>>

RECURSIVE k2p_classes(_, _, _, _, _)
\* modules/segment.py: `for region_type, regions in res.regions.items()`, from the k-th item on
k2p_classes(st, items, k, lines, skip_unknown) ==
    IF k > Len(items) \/ st.raised # "none"
    THEN st
    ELSE LET region_type == k2p_region_type(items[k].cls, skip_unknown) IN
         IF region_type = <<>>
         THEN k2p_classes(st, items, k + 1, lines, skip_unknown)
         ELSE k2p_classes(k2p_regions(st, region_type[1], items[k].regions, 1, lines),
                          items, k + 1, lines, skip_unknown)

\* modules/segment.py kraken_to_pxml: the page of the returned document, or
\* the exception that left the call and the page as built by then
kraken_to_pxml(r, image_width, image_height, skip_unknown) ==
    LET st == k2p_classes([elements |-> <<>>, region_counter |-> 1, line_counter |-> 1,
                           raised |-> "none"],
                          r.regions, 1, r.lines, skip_unknown)
    IN [imageWidth |-> image_width, imageHeight |-> image_height, raised |-> st.raised,
        elements |-> st.elements]

(***************************************************************************)
(* octopy/segment.py segmentation_to_page                                  *)
(***************************************************************************)
\* octopy/segment.py: f"r{rc}"
o_region_id(rc) == <<"r">> \o NatStr(rc)

\* octopy/segment.py: f"l{lc}"
o_line_id(lc) == <<"l">> \o NatStr(lc)

\* octopy/segment.py: the corners of the dummy region
o_dummy_coords(image_width, image_height) ==
    <<<<0, 0>>, <<image_width, 0>>, <<image_width, image_height>>, <<0, image_height>>>>

\* octopy/segment.py: a TextLine with its optional Coords and Baseline children
o_textline(line, lc) ==
    LET textline == Element_new("TextLine", [id |-> o_line_id(lc)])
        with_boundary == IF line.boundary # <<>>
                         THEN WithChild(textline, "Coords", [points |-> points_to_string(line.boundary)])
                         ELSE textline
    IN IF line.baseline # <<>>
       THEN WithChild(with_boundary, "Baseline", [points |-> points_to_string(line.baseline)])
       ELSE with_boundary

RECURSIVE o_dummy_lines(_, _, _, _)
\* octopy/segment.py: `for line in res.lines` under suppress_regions, from the i-th line on
o_dummy_lines(dummy_region, lines, i, lc) ==
    IF i > Len(lines)
    THEN dummy_region
    ELSE o_dummy_lines(Element_add_element(dummy_region, o_textline(lines[i], lc), <<>>),
                       lines, i + 1, lc + 1)

RECURSIVE o_lines(_, _, _, _, _)
\* octopy/segment.py: `for found_line in res.lines`, from the i-th line on
o_lines(region, found_region, lines, i, lc) ==
    IF i > Len(lines)
    THEN [region |-> region, lc |-> lc]
    ELSE IF found_region.id \in lines[i].regions
         THEN o_lines(Element_add_element(region, o_textline(lines[i], lc), <<>>),
                      found_region, lines, i + 1, lc + 1)
         ELSE o_lines(region, found_region, lines, i + 1, lc)

RECURSIVE o_regions(_, _, _, _, _, _)
\* octopy/segment.py: `for found_region in found_regions`, from the j-th region on;
\* under suppress_lines the `continue` comes before `rc += 1`
o_regions(st, entry, found_regions, j, lines, suppress_lines) ==
    IF j > Len(found_regions)
    THEN st
    ELSE LET region == WithChild(
                 Element_new(entry[2], [type |-> entry[3], id |-> o_region_id(st.rc)]),
                 "Coords", [points |-> points_to_string(found_regions[j].boundary)])
         IN IF suppress_lines
            THEN o_regions([st EXCEPT !.elements = Append(@, region)],
                           entry, found_regions, j + 1, lines, suppress_lines)
            ELSE LET r == o_lines(region, found_regions[j], lines, 1, st.lc) IN
                 o_regions([elements |-> Append(st.elements, r.region), rc |-> st.rc + 1, lc |-> r.lc],
                           entry, found_regions, j + 1, lines, suppress_lines)

RECURSIVE o_classes(_, _, _, _, _)
\* octopy/segment.py: `for region_class, found_regions in res.regions.items()`, from the k-th item on
o_classes(st, items, k, lines, suppress_lines) ==
    IF k > Len(items)
    THEN st
    ELSE IF items[k].cls \notin Keys(SEGMENTATION_CLASS_MAPPING)
         THEN o_classes(st, items, k + 1, lines, suppress_lines)
         ELSE o_classes(o_regions(st, Lookup(SEGMENTATION_CLASS_MAPPING, items[k].cls),
                                  items[k].regions, 1, lines, suppress_lines),
                        items, k + 1, lines, suppress_lines)

\* octopy/segment.py segmentation_to_page: the page of the returned document
o_segmentation_to_page(r, image_width, image_height, suppress_lines, suppress_regions) ==
    [imageWidth |-> image_width, imageHeight |-> image_height, raised |-> "none",
     elements |->
        IF suppress_regions
        THEN LET dummy_region == WithChild(
                     Element_new("TextRegion", [type |-> <<"paragraph">>, id |-> <<"r", "d", "u", "m", "m", "y">>]),
                     "Coords", [points |-> points_to_string(o_dummy_coords(image_width, image_height))])
             IN IF suppress_lines
                THEN <<dummy_region>>
                ELSE <<o_dummy_lines(dummy_region, r.lines, 1, 1)>>
        ELSE o_classes([elements |-> <<>>, rc |-> 1, lc |-> 1], r.regions, 1, r.lines,
                       suppress_lines).elements]

(***************************************************************************)
(* src/octopy/segment.py segmentation_to_page                              *)
(***************************************************************************)
\* src/octopy/segment.py: f"r_{rc:04d}"
s_region_id(rc) == <<"r", "_">> \o ZeroPad(NatStr(rc), 4)

\* src/octopy/segment.py: f"l_{lc:04d}"
s_line_id(lc) == <<"l", "_">> \o ZeroPad(NatStr(lc), 4)

\* the corners with width and height exchanged
s_dummy_coords_swapped(image_width, image_height) ==
    <<<<0, 0>>, <<image_height, 0>>, <<image_height, image_width>>, <<0, image_width>>>>

\* src/octopy/segment.py: coords of the dummy region
s_dummy_coords(image_width, image_height) ==
    <<<<0, 0>>, <<image_width, 0>>, <<image_width, image_height>>, <<0, image_height>>>>

\* src/octopy/segment.py: a TextLine with its optional Coords and Baseline children
s_lelement(line, lc) ==
    LET lelement == Element_new("TextLine", [id |-> s_line_id(lc)])
        with_boundary == IF line.boundary # <<>>
                         THEN WithChild(lelement, "Coords", [points |-> kraken_to_string(line.boundary)])
                         ELSE lelement
    IN IF line.baseline # <<>>
       THEN WithChild(with_boundary, "Baseline", [points |-> kraken_to_string(line.baseline)])
       ELSE with_boundary

RECURSIVE s_dummy_lines(_, _, _, _)
\* src/octopy/segment.py: `for line in res.lines` under suppress_regions, from the i-th line on
s_dummy_lines(relement, lines, i, lc) ==
    IF i > Len(lines)
    THEN relement
    ELSE s_dummy_lines(Element_add_element(relement, s_lelement(lines[i], lc), <<>>),
                       lines, i + 1, lc + 1)

RECURSIVE s_lines(_, _, _, _, _)
\* src/octopy/segment.py: `for line in res.lines`, from the i-th line on
s_lines(relement, region, lines, i, lc) ==
    IF i > Len(lines)
    THEN [relement |-> relement, lc |-> lc]
    ELSE IF region.id \in lines[i].regions
         THEN s_lines(Element_add_element(relement, s_lelement(lines[i], lc), <<>>),
                      region, lines, i + 1, lc + 1)
         ELSE s_lines(relement, region, lines, i + 1, lc)

RECURSIVE s_regions(_, _, _, _, _, _)
\* the loop over the regions with the line loop run whatever suppress_lines says
s_regions_lines_always(st, entry, regions, j, lines, suppress_lines) ==
    IF j > Len(regions)
    THEN st
    ELSE LET relement == WithChild(
                 Element_new(entry[2], [type |-> entry[3], id |-> s_region_id(st.rc)]),
                 "Coords", [points |-> kraken_to_string(regions[j].boundary)])
             r == s_lines(relement, regions[j], lines, 1, st.lc)
         IN s_regions([elements |-> Append(st.elements, r.relement), rc |-> st.rc + 1, lc |-> r.lc],
                      entry, regions, j + 1, lines, suppress_lines)

\* src/octopy/segment.py: `for region in regions`, from the j-th region on
s_regions(st, entry, regions, j, lines, suppress_lines) ==
    IF j > Len(regions)
    THEN st
    ELSE LET relement == WithChild(
                 Element_new(entry[2], [type |-> entry[3], id |-> s_region_id(st.rc)]),
                 "Coords", [points |-> kraken_to_string(regions[j].boundary)])
         IN IF ~suppress_lines
            THEN LET r == s_lines(relement, regions[j], lines, 1, st.lc) IN
                 s_regions([elements |-> Append(st.elements, r.relement), rc |-> st.rc + 1, lc |-> r.lc],
                           entry, regions, j + 1, lines, suppress_lines)
            ELSE s_regions([elements |-> Append(st.elements, relement), rc |-> st.rc + 1, lc |-> st.lc],
                           entry, regions, j + 1, lines, suppress_lines)

RECURSIVE s_classes(_, _, _, _, _)
\* src/octopy/segment.py: `for region_type, regions in res.regions.items()`, from the k-th item on
s_classes(st, items, k, lines, suppress_lines) ==
    IF k > Len(items)
    THEN st
    ELSE IF items[k].cls \notin Keys(SEGMENTATION_MAPPING)
         THEN s_classes(st, items, k + 1, lines, suppress_lines)
         ELSE s_classes(s_regions(st, Lookup(SEGMENTATION_MAPPING, items[k].cls),
                                  items[k].regions, 1, lines, suppress_lines),
                        items, k + 1, lines, suppress_lines)

\* src/octopy/segment.py segmentation_to_page: the page of the returned document
s_segmentation_to_page(r, image_width, image_height, suppress_lines, suppress_regions) ==
    [imageWidth |-> IntStr(image_width), imageHeight |-> IntStr(image_height), raised |-> "none",
     elements |->
        IF suppress_regions
        THEN LET relement == WithChild(
                     Element_new("TextRegion", [type |-> <<"paragraph">>, id |-> <<"r", "_", "d", "u", "m", "m", "y">>]),
                     "Coords", [points |-> kraken_to_string(s_dummy_coords(image_width, image_height))])
             IN IF ~suppress_lines
                THEN <<s_dummy_lines(relement, r.lines, 1, 1)>>
                ELSE <<relement>>
        ELSE s_classes([elements |-> <<>>, rc |-> 1, lc |-> 1], r.regions, 1, r.lines,
                       suppress_lines).elements]

(***************************************************************************)
(* Segmentation results given to the adapters.  A region's id is the pair  *)
(* (position of its class, position in the class); its boundary is a       *)
(* rectangle of its own.  The i-th line has its own boundary and baseline, *)
(* either of which the polygonizer may have failed to produce.             *)
(***************************************************************************)
Classes == {"text", "image", "bogus"}

Rect(x0, y0, x1, y1) == <<<<x0, y0>>, <<x1, y0>>, <<x1, y1>>, <<x0, y1>>>>

RegionBoundary(k, j) == Rect(20 * (j - 1), 30 * (k - 1), 20 * (j - 1) + 15, 30 * (k - 1) + 25)

LineBoundary(i) == Rect(1, 10 * i, 12, 10 * i + 6)

LineBaseline(i) == <<<<1, 10 * i + 5>>, <<12, 10 * i + 5>>>>

LineVariants == {"full", "noboundary", "nobaseline"}

RegionItems(cs, cnt) ==
    [k \in 1..Len(cs) |->
        [cls |-> cs[k],
         regions |-> [j \in 1..cnt[k] |-> [id |-> <<k, j>>, boundary |-> RegionBoundary(k, j)]]]]

RegionIds(items) ==
    UNION {{items[k].regions[j].id : j \in 1..Len(items[k].regions)} : k \in 1..Len(items)}

\* a line belongs to no region, to one region or to all of them
Memberships(ids) == {S \in SUBSET ids : Cardinality(S) <= 1} \cup {ids}

LineRecord(i, variant, regions) ==
    [boundary |-> IF variant = "noboundary" THEN <<>> ELSE LineBoundary(i),
     baseline |-> IF variant = "nobaseline" THEN <<>> ELSE LineBaseline(i),
     regions |-> regions]

\* a complete line with any membership, an incomplete one as a member of all regions
LineOptions(ids) ==
    ({"full"} \X Memberships(ids)) \cup ((LineVariants \ {"full"}) \X {ids})

LineLists(ids) ==
    UNION {{[i \in 1..n |-> LineRecord(i, c[i][1], c[i][2])] :
                c \in [1..n -> LineOptions(ids)]} : n \in 0..MaxLines}

\* image sizes (width, height)
Sizes == {<<100, 50>>, <<8, 1200>>}

InitAdapter ==
    /\ page = Page_new
    /\ flt = NoFilter
    /\ \E cs \in DistinctSeqs(Classes, MaxClasses) :
          \E cnt \in [1..Len(cs) -> 1..MaxPolys] :
             \E ls \in LineLists(RegionIds(RegionItems(cs, cnt))) :
                res = [kind |-> "segmentation", regions |-> RegionItems(cs, cnt), lines |-> ls]
    /\ args = Idle
    /\ doc = NoDoc

\* kraken_to_pxml(res, image_width, image_height, creator, skip_unknown)
CallKrakenToPxml ==
    \E size \in Sizes, skip_unknown \in BOOLEAN :
        /\ args.fn = "none"
        /\ args' = [fn |-> "kraken_to_pxml", image_width |-> size[1], image_height |-> size[2],
                    skip_unknown |-> skip_unknown, suppress_lines |-> FALSE, suppress_regions |-> FALSE]
        /\ doc' = kraken_to_pxml(res, size[1], size[2], skip_unknown)
        /\ UNCHANGED <<page, flt, res>>

\* octopy/segment.py segmentation_to_page(res, image_width, image_height, creator, suppress_lines, suppress_regions)
CallSegmentationToPage ==
    \E size \in Sizes, suppress_lines \in BOOLEAN, suppress_regions \in BOOLEAN :
        /\ args.fn = "none"
        /\ args' = [fn |-> "octopy/segment.py", image_width |-> size[1], image_height |-> size[2],
                    skip_unknown |-> TRUE, suppress_lines |-> suppress_lines,
                    suppress_regions |-> suppress_regions]
        /\ doc' = o_segmentation_to_page(res, size[1], size[2], suppress_lines, suppress_regions)
        /\ UNCHANGED <<page, flt, res>>

\* src/octopy/segment.py segmentation_to_page(res, image_width, image_height, creator, suppress_lines, suppress_regions)
CallSegmentationToPageSrc ==
    \E size \in Sizes, suppress_lines \in BOOLEAN, suppress_regions \in BOOLEAN :
        /\ args.fn = "none"
        /\ args' = [fn |-> "src/octopy/segment.py", image_width |-> size[1], image_height |-> size[2],
                    skip_unknown |-> TRUE, suppress_lines |-> suppress_lines,
                    suppress_regions |-> suppress_regions]
        /\ doc' = s_segmentation_to_page(res, size[1], size[2], suppress_lines, suppress_regions)
        /\ UNCHANGED <<page, flt, res>>

NextAdapter == CallKrakenToPxml \/ CallSegmentationToPage \/ CallSegmentationToPageSrc

SpecAdapter == InitAdapter /\ [][NextAdapter]_vars

(***************************************************************************)
(* Properties of the adapters                                              *)
(***************************************************************************)
RECURSIVE PolysFrom(_, _)
\* the reported polygons with their class, classes in mapping order, polygons in list order
PolysFrom(items, k) ==
    IF k > Len(items)
    THEN <<>>
    ELSE [j \in 1..Len(items[k].regions) |-> [cls |-> items[k].cls, region |-> items[k].regions[j]]]
         \o PolysFrom(items, k + 1)

AllPolys == PolysFrom(res.regions, 1)

KnownToKraken(e) == e.cls \in Keys(REGION_MAPPING)

KnownToPage(e) == e.cls \in Keys(SEGMENTATION_MAPPING)

\* the points attribute of the element's first child of the given type, <<>> without such a child
PointsOf(element, etype) ==
    IF \E i \in 1..Len(element.elements) : element.elements[i].etype = etype
    THEN <<element.elements[CHOOSE i \in 1..Len(element.elements) :
                /\ element.elements[i].etype = etype
                /\ \A h \in 1..(i - 1) : element.elements[h].etype # etype].attributes.points>>
    ELSE <<>>

IsTextLine(element) == element.etype = "TextLine"

LinesOf(element) == SelectSeq(element.elements, IsTextLine)

\* what identifies the line a TextLine was made from: its Coords and Baseline points
LineSigs(element) ==
    [i \in 1..Len(LinesOf(element)) |->
        <<PointsOf(LinesOf(element)[i], "Coords"), PointsOf(LinesOf(element)[i], "Baseline")>>]

Points(coords) == IF coords = <<>> THEN <<>> ELSE <<coords_to_pagexml(coords)>>

RECURSIVE SigsOfLines(_, _, _)
\* the same for the input lines, from the i-th on, that belong to one of the regions ids
SigsOfLines(lines, i, ids) ==
    IF i > Len(lines)
    THEN <<>>
    ELSE (IF lines[i].regions \cap ids # {}
          THEN <<<<Points(lines[i].boundary), Points(lines[i].baseline)>>>>
          ELSE <<>>) \o SigsOfLines(lines, i + 1, ids)

\* k written with at least three digits
Pad3(k) ==
    IF k < 10 THEN <<"0", "0", Digit(k)>>
    ELSE IF k < 100 THEN <<"0", Digit(k \div 10), Digit(k % 10)>>
    ELSE NatStr(k)

\* the TextLine elements of the document in document order
RECURSIVE DocLines(_, _)
DocLines(elements, k) ==
    IF k > Len(elements) THEN <<>> ELSE LinesOf(elements[k]) \o DocLines(elements, k + 1)

EmittedByKraken ==
    IF args.skip_unknown THEN SelectSeq(AllPolys, KnownToKraken) ELSE AllPolys

\* C5: kraken_to_pxml emits the polygons of the known classes (of all classes
\* without skip_unknown) in mapping order, the k-th emitted region has the id
\* r_ followed by k in three digits, and the first emitted line has the id l_001.
C5_SequentialRegionIds ==
    args.fn = "kraken_to_pxml" =>
        /\ Len(doc.elements) = Len(EmittedByKraken)
        /\ \A k \in 1..Len(doc.elements) :
              /\ doc.elements[k].attributes.id = <<"r", "_">> \o Pad3(k)
              /\ PointsOf(doc.elements[k], "Coords") = Points(EmittedByKraken[k].region.boundary)
        /\ DocLines(doc.elements, 1) # <<>> =>
              DocLines(doc.elements, 1)[1].attributes.id = <<"l", "_", "0", "0", "1">>

\* regions of a skipped class come first, two regions and a line are emitted
C5_Witness ==
    /\ args.fn = "kraken_to_pxml"
    /\ args.skip_unknown
    /\ Len(res.regions) >= 2
    /\ ~KnownToKraken(res.regions[1])
    /\ Len(doc.elements) >= 2
    /\ DocLines(doc.elements, 1) # <<>>

\* C6: all region elements of the document returned by segmentation_to_page
\* have pairwise different ids.
C6_RegionIdsUnique ==
    args.fn \in {"octopy/segment.py", "src/octopy/segment.py"} =>
        \A h, k \in 1..Len(doc.elements) :
            h # k => doc.elements[h].attributes.id # doc.elements[k].attributes.id

\* C7: in kraken_to_pxml, and in segmentation_to_page without suppression, the
\* TextLine children of an emitted region are exactly the lines whose regions
\* hold the region's id, in the order of the line list.
C7_ExplicitMembership ==
    /\ args.fn = "kraken_to_pxml" =>
          /\ Len(doc.elements) = Len(EmittedByKraken)
          /\ \A k \in 1..Len(doc.elements) :
                LineSigs(doc.elements[k]) = SigsOfLines(res.lines, 1, {EmittedByKraken[k].region.id})
    /\ (args.fn = "src/octopy/segment.py" /\ ~args.suppress_regions /\ ~args.suppress_lines) =>
          /\ Len(doc.elements) = Len(SelectSeq(AllPolys, KnownToPage))
          /\ \A k \in 1..Len(doc.elements) :
                LineSigs(doc.elements[k]) =
                    SigsOfLines(res.lines, 1, {SelectSeq(AllPolys, KnownToPage)[k].region.id})

\* a region got some of the lines but not all of them
C7_Witness ==
    /\ args.fn = "kraken_to_pxml"
    /\ \E k \in 1..Len(doc.elements) :
          /\ Len(LinesOf(doc.elements[k])) > 0
          /\ Len(LinesOf(doc.elements[k])) < Len(res.lines)

\* C9: kraken_to_pxml raises nothing; with skip_unknown it emits the polygons
\* of the known classes only, without it every polygon of an unknown class
\* is emitted once, as an UnknownRegion.
C9_UnknownClasses ==
    args.fn = "kraken_to_pxml" =>
        /\ doc.raised = "none"
        /\ args.skip_unknown =>
              /\ Len(doc.elements) = Len(SelectSeq(AllPolys, KnownToKraken))
              /\ \A k \in 1..Len(doc.elements) :
                    PointsOf(doc.elements[k], "Coords") =
                        Points(SelectSeq(AllPolys, KnownToKraken)[k].region.boundary)
        /\ ~args.skip_unknown =>
              /\ Len(doc.elements) = Len(AllPolys)
              /\ \A k \in 1..Len(AllPolys) :
                    /\ PointsOf(doc.elements[k], "Coords") = Points(AllPolys[k].region.boundary)
                    /\ ~KnownToKraken(AllPolys[k]) => doc.elements[k].etype = "UnknownRegion"

\* an unknown class between or before known ones was mapped to UnknownRegion
C9_Witness ==
    /\ args.fn = "kraken_to_pxml"
    /\ ~args.skip_unknown
    /\ \E k \in 1..Len(doc.elements) : doc.elements[k].etype = "UnknownRegion"
    /\ \E k \in 1..Len(doc.elements) : doc.elements[k].etype # "UnknownRegion"

\* the points string of the page rectangle of a w by h image
PageRectangle(w, h) ==
    <<"0", ",", "0", " ">> \o IntStr(w) \o <<",", "0", " ">> \o IntStr(w) \o <<",">> \o IntStr(h)
    \o <<" ", "0", ",">> \o IntStr(h)

\* C10: with suppress_regions, segmentation_to_page emits one region, whose
\* polygon is the page rectangle; unless suppress_lines is set its TextLine
\* children are the input lines, one each and in input order.
C10_SuppressRegions ==
    (args.fn \in {"octopy/segment.py", "src/octopy/segment.py"} /\ args.suppress_regions) =>
        /\ Len(doc.elements) = 1
        /\ is_region(doc.elements[1])
        /\ PointsOf(doc.elements[1], "Coords") = <<PageRectangle(args.image_width, args.image_height)>>
        /\ ~args.suppress_lines =>
              /\ Len(doc.elements[1].elements) = 1 + Len(res.lines)
              /\ LineSigs(doc.elements[1]) =
                    [i \in 1..Len(res.lines) |->
                        <<Points(res.lines[i].boundary), Points(res.lines[i].baseline)>>]

\* two lines, one of them in no region, both under the dummy region of a result with regions
C10_Witness ==
    /\ args.fn \in {"octopy/segment.py", "src/octopy/segment.py"}
    /\ args.suppress_regions
    /\ ~args.suppress_lines
    /\ Len(res.regions) >= 1
    /\ Len(res.lines) >= 2
    /\ \E i \in 1..Len(res.lines) : res.lines[i].regions = {}
    /\ Len(doc.elements) = 1
    /\ Len(LinesOf(doc.elements[1])) = Len(res.lines)

\* the regions of a document: type and polygon of each, in document order
RegionSigs(elements) ==
    [k \in 1..Len(elements) |-> <<elements[k].etype, PointsOf(elements[k], "Coords")>>]

\* the document the same call returns with suppress_lines=False
WithLinesDoc ==
    IF args.fn = "octopy/segment.py"
    THEN o_segmentation_to_page(res, args.image_width, args.image_height, FALSE, args.suppress_regions)
    ELSE s_segmentation_to_page(res, args.image_width, args.image_height, FALSE, args.suppress_regions)

\* C11: with suppress_lines, the document returned by segmentation_to_page has
\* no TextLine element, with and without suppress_regions; its regions are
\* elements with the Coords child alone, and their types and polygons are
\* those of the document returned with suppress_lines=False, in the same order.
C11_SuppressLines ==
    (args.fn \in {"octopy/segment.py", "src/octopy/segment.py"} /\ args.suppress_lines) =>
        /\ \A k \in 1..Len(doc.elements) :
              /\ LinesOf(doc.elements[k]) = <<>>
              /\ Len(doc.elements[k].elements) = 1
              /\ \A h \in 1..Len(doc.elements[k].elements) :
                    LinesOf(doc.elements[k].elements[h]) = <<>>
        /\ ~\E k \in 1..Len(doc.elements) : IsTextLine(doc.elements[k])
        /\ RegionSigs(doc.elements) = RegionSigs(WithLinesDoc.elements)

\* two regions were emitted without lines although the same call with lines gives some
C11_Witness ==
    /\ args.fn = "src/octopy/segment.py"
    /\ args.suppress_lines
    /\ ~args.suppress_regions
    /\ Len(doc.elements) >= 2
    /\ DocLines(WithLinesDoc.elements, 1) # <<>>

(***************************************************************************)
(* pagexml.geometry: a polygon is the list of its points <<x, y>>.         *)
(* center and contains go through shapely: the centroid is the             *)
(* area-weighted one of the signed-area formula, computed here in exact    *)
(* arithmetic, and contains is true of the points of the interior only.    *)
(***************************************************************************)
\* Point.to_string, Polygon.to_page_coords
to_page_coords(points) == JoinPoints(points, 1)

\* Polygon.from_kraken_coords: Point.from_int(xy[0], xy[1]) of every pair
from_kraken_coords(coords) == [i \in 1..Len(coords) |-> <<coords[i][1], coords[i][2]>>]

\* the point after the i-th, the ring being closed
NextPoint(points, i) == points[(i % Len(points)) + 1]

\* x_i * y_(i+1) - x_(i+1) * y_i
Cross(points, i) ==
    points[i][1] * NextPoint(points, i)[2] - NextPoint(points, i)[1] * points[i][2]

RECURSIVE Area2(_, _)
\* twice the signed area, summed from the i-th edge on
Area2(points, i) ==
    IF i > Len(points) THEN 0 ELSE Cross(points, i) + Area2(points, i + 1)

RECURSIVE Moment(_, _, _)
\* the sum of (c_i + c_(i+1)) * cross_i for the coordinate c, from the i-th edge on
Moment(points, c, i) ==
    IF i > Len(points)
    THEN 0
    ELSE (points[i][c] + NextPoint(points, i)[c]) * Cross(points, i) + Moment(points, c, i + 1)

\* round(num / den) of Python: to the nearest integer, a half to the even one
PyRound(num, den) ==
    LET n == IF den < 0 THEN 0 - num ELSE num
        d == IF den < 0 THEN 0 - den ELSE den
        q == n \div d
        r == n - q * d
    IN IF 2 * r < d THEN q
       ELSE IF 2 * r > d THEN q + 1
       ELSE IF q % 2 = 0 THEN q ELSE q + 1

\* Polygon.center, for a polygon of non-zero area
center(points) ==
    <<PyRound(Moment(points, 1, 1), 3 * Area2(points, 1)),
      PyRound(Moment(points, 2, 1), 3 * Area2(points, 1))>>

\* on which side of the i-th edge the point lies
Side(points, i, point) ==
    (NextPoint(points, i)[1] - points[i][1]) * (point[2] - points[i][2])
    - (NextPoint(points, i)[2] - points[i][2]) * (point[1] - points[i][1])

\* Polygon.contains, for a convex polygon: strictly on the same side of every edge
contains(points, point) ==
    \/ \A i \in 1..Len(points) : Side(points, i, point) > 0
    \/ \A i \in 1..Len(points) : Side(points, i, point) < 0

(***************************************************************************)
(* modules/seg.py and modules/bls.py: the adapters on kraken's result      *)
(* dictionary, which infer the region of a line                            *)
(***************************************************************************)
\* modules/seg.py REGION_TYPES (the same list in modules/bls.py)
REGION_TYPES ==
    {"paragraph", "heading", "caption", "header", "footer", "page-number", "drop-capital",
     "credit", "floating", "signature-mark", "catch-word", "marginalia", "footnote",
     "footnote-continued", "endnote", "TOC-entry", "list-label", "other"}

\* str.lower on the class names of the results below
Lower(name) ==
    CASE name = "Paragraph" -> "paragraph"
      [] name = "Header" -> "header"
      [] OTHER -> name

\* modules/seg.py: the type given to the regions of a class
legacy_region_type(region_type) ==
    IF Lower(region_type) \notin REGION_TYPES THEN "other" ELSE Lower(region_type)

RECURSIVE legacy_regions(_, _)
\* modules/seg.py: the first loop of kraken_to_list, from the k-th class on
legacy_regions(items, k) ==
    IF k > Len(items)
    THEN <<>>
    ELSE [j \in 1..Len(items[k].polys) |->
             [type |-> legacy_region_type(items[k].cls),
              coords |-> from_kraken_coords(items[k].polys[j]),
              lines |-> <<>>]]
         \o legacy_regions(items, k + 1)

RECURSIVE attach_all(_, _, _)
\* the search without its `break`
attach_all(regions, line, i) ==
    IF i > Len(regions)
    THEN regions
    ELSE IF contains(regions[i].coords, center(from_kraken_coords(line.boundary)))
         THEN attach_all([regions EXCEPT ![i].lines =
                             Append(@, [bl |-> from_kraken_coords(line.baseline),
                                        mask |-> from_kraken_coords(line.boundary)])],
                         line, i + 1)
         ELSE attach_all(regions, line, i + 1)

RECURSIVE attach(_, _, _)
\* modules/seg.py: `for region in regions` of kraken_to_list, from the i-th region on
attach(regions, line, i) ==
    IF i > Len(regions)
    THEN regions
    ELSE IF contains(regions[i].coords, center(from_kraken_coords(line.boundary)))
         THEN [regions EXCEPT ![i].lines =
                  Append(@, [bl |-> from_kraken_coords(line.baseline),
                             mask |-> from_kraken_coords(line.boundary)])]
         ELSE attach(regions, line, i + 1)

RECURSIVE legacy_lines(_, _, _)
\* modules/seg.py: `for line in res['lines']` of kraken_to_list, from the i-th line on
legacy_lines(regions, lines, i) ==
    IF i > Len(lines)
    THEN regions
    ELSE legacy_lines(attach(regions, lines[i], 1), lines, i + 1)

\* modules/seg.py segment.kraken_to_list
kraken_to_list(r) == legacy_lines(legacy_regions(r.regions, 1), r.lines, 1)

\* modules/bls.py _kraken_parser
kraken_parser(r) == legacy_lines(legacy_regions(r.regions, 1), r.lines, 1)

\* modules/seg.py: f'r_{rid:03d}'
legacy_region_id(rid) == <<"r", "_">> \o ZeroPad(NatStr(rid), 3)

\* modules/seg.py: f'l_{lid:03d}'
legacy_line_id(lid) == <<"l", "_">> \o ZeroPad(NatStr(lid), 3)

RECURSIVE legacy_page_lines(_, _, _, _)
\* modules/seg.py: `for ldata in rdata['lines']`, from the i-th line on
legacy_page_lines(region, ldatas, i, lid) ==
    IF i > Len(ldatas)
    THEN [region |-> region, lid |-> lid]
    ELSE LET line == WithChild(
                 WithChild(Element_new("TextLine", [id |-> legacy_line_id(lid)]),
                           "Coords", [points |-> to_page_coords(ldatas[i].mask)]),
                 "Baseline", [points |-> to_page_coords(ldatas[i].bl)])
         IN legacy_page_lines(Element_add_element(region, line, <<>>), ldatas, i + 1, lid + 1)

RECURSIVE legacy_page(_, _, _, _)
\* modules/seg.py: `for rid, rdata in enumerate(res)`, from the item with index rid on
legacy_page(p, rdatas, rid, lid) ==
    IF rid >= Len(rdatas)
    THEN p
    ELSE LET rdata == rdatas[rid + 1]
             created == create_element(
                 p, Element_new("TextRegion", [type |-> rdata.type, id |-> legacy_region_id(rid)]), <<>>)
             region == WithChild(created.elements[Len(created.elements)],
                                 "Coords", [points |-> to_page_coords(rdata.coords)])
             r == legacy_page_lines(region, rdata.lines, 1, lid)
         IN legacy_page([created EXCEPT !.elements = SetLast(@, r.region)], rdatas, rid + 1, r.lid)

\* modules/seg.py segment: the page built for one image
segment_page(r) == legacy_page(Page_new, kraken_to_list(r), 0, 0)

(***************************************************************************)
(* Results given to the legacy adapters: region polygons that overlap or   *)
(* not, line boundaries whose center lies in two regions, in one, in none, *)
(* on an edge, and on a half that rounding moves onto an edge.             *)
(***************************************************************************)
LegacyClasses == {"Paragraph", "text"}

LegacyPolygons == {Rect(0, 0, 10, 10), Rect(5, 0, 15, 10)}

LegacyBoundaries ==
    {Rect(6, 2, 8, 4), Rect(11, 2, 13, 4), Rect(16, 2, 18, 4), Rect(9, 2, 11, 4), Rect(9, 2, 10, 4)}

LegacyLine(boundary) ==
    [boundary |-> boundary, baseline |-> <<boundary[4], boundary[3]>>]

LegacyLineLists ==
    UNION {{[i \in 1..n |-> LegacyLine(c[i])] : c \in [1..n -> LegacyBoundaries]} : n \in 0..MaxLines}

PolyLists == DistinctSeqs(LegacyPolygons, MaxPolys) \ {<<>>}

InitLegacy ==
    /\ page = Page_new
    /\ flt = NoFilter
    /\ \E cs \in DistinctSeqs(LegacyClasses, MaxClasses) :
          \E ps \in [1..Len(cs) -> PolyLists] :
             \E ls \in LegacyLineLists :
                res = [kind |-> "legacy",
                       regions |-> [k \in 1..Len(cs) |-> [cls |-> cs[k], polys |-> ps[k]]],
                       lines |-> ls]
    /\ args = Idle
    /\ doc = NoDoc

\* modules/seg.py: kraken_to_list(res)
CallKrakenToList ==
    /\ args.fn = "none"
    /\ args' = [fn |-> "kraken_to_list"]
    /\ doc' = kraken_to_list(res)
    /\ UNCHANGED <<page, flt, res>>

\* modules/bls.py: _kraken_parser(res)
CallKrakenParser ==
    /\ args.fn = "none"
    /\ args' = [fn |-> "_kraken_parser"]
    /\ doc' = kraken_parser(res)
    /\ UNCHANGED <<page, flt, res>>

\* modules/seg.py: the body of segment's loop for one image, from the parsed result to the page
SegmentImage ==
    /\ args.fn = "none"
    /\ args' = [fn |-> "segment"]
    /\ page' = segment_page(res)
    /\ UNCHANGED <<flt, res, doc>>

NextLegacy == CallKrakenToList \/ CallKrakenParser \/ SegmentImage

SpecLegacy == InitLegacy /\ [][NextLegacy]_vars

RECURSIVE LegacyPolysFrom(_, _)
\* the polygons of the result in the order of their creation as regions
LegacyPolysFrom(items, k) ==
    IF k > Len(items) THEN <<>> ELSE items[k].polys \o LegacyPolysFrom(items, k + 1)

LegacyPolys == LegacyPolysFrom(res.regions, 1)

\* C2: every region the adapter created has its id once in the reading order
\* of the page, and the reading order lists the ids in creation order.
C2_ReadingOrderComplete ==
    args.fn = "segment" =>
        /\ Len(page.elements) = Len(LegacyPolys)
        /\ \A k \in 1..Len(page.elements) :
              /\ is_region(page.elements[k])
              /\ PointsOf(page.elements[k], "Coords") = <<to_page_coords(LegacyPolys[k])>>
              /\ Count(page.ro, page.elements[k].attributes.id) = 1
        /\ page.ro = [k \in 1..Len(page.elements) |-> page.elements[k].attributes.id]

\* a page with three regions or more
C2_Witness ==
    /\ args.fn = "segment"
    /\ Len(page.elements) >= 3
    /\ Len(page.ro) >= 3

\* the regions, by position, whose polygon contains the center of the boundary
Containing(boundary) ==
    {k \in 1..Len(LegacyPolys) : contains(LegacyPolys[k], center(boundary))}

\* the first of them, 0 when there is none
FirstContaining(boundary) ==
    IF Containing(boundary) = {}
    THEN 0
    ELSE CHOOSE k \in Containing(boundary) : \A h \in Containing(boundary) : k <= h

RECURSIVE LinesWon(_, _)
\* the lines, from the i-th on, whose first containing region is the k-th
LinesWon(k, i) ==
    IF i > Len(res.lines)
    THEN <<>>
    ELSE (IF FirstContaining(res.lines[i].boundary) = k
          THEN <<[bl |-> res.lines[i].baseline, mask |-> res.lines[i].boundary]>>
          ELSE <<>>) \o LinesWon(k, i + 1)

list_of(f) == f \o <<>>

\* position of the first item of s equal to c at or after position i, 0 without one
RECURSIVE FindFrom(_, _, _)
FindFrom(s, c, i) ==
    IF i > Len(s) THEN 0 ELSE IF s[i] = c THEN i ELSE FindFrom(s, c, i + 1)

RECURSIVE Split(_, _)
\* str.split(sep) for a separator of one character
Split(s, sep) ==
    LET i == FindFrom(s, sep, 1) IN
    IF i = 0
    THEN <<s>>
    ELSE <<SubSeq(s, 1, i - 1)>> \o Split(SubSeq(s, i + 1, Len(s)), sep)

IsDigit(c) == c \in {"0", "1", "2", "3", "4", "5", "6", "7", "8", "9"}

DigitVal(c) ==
    CASE c = "0" -> 0 [] c = "1" -> 1 [] c = "2" -> 2 [] c = "3" -> 3 [] c = "4" -> 4
      [] c = "5" -> 5 [] c = "6" -> 6 [] c = "7" -> 7 [] c = "8" -> 8 [] c = "9" -> 9

RECURSIVE NatVal(_, _)
\* the value of the digits of s, underscores passed over, acc being the value so far
NatVal(s, acc) ==
    IF s = <<>> THEN acc
    ELSE IF s[1] = "_" THEN NatVal(Tail(s), acc)
    ELSE NatVal(Tail(s), 10 * acc + DigitVal(s[1]))

\* a conversion that takes digits alone
PyInt_digits_only(s) ==
    IF s # <<>> /\ \A i \in 1..Len(s) : IsDigit(s[i]) THEN <<NatVal(s, 0)>> ELSE <<>>

\* int(s) for a string without white space: <<n>>, or <<>> for a ValueError.
\* An integer literal is an optional sign and digits, single underscores
\* being allowed between digits.
PyInt(s) ==
    LET signed == s # <<>> /\ s[1] \in {"+", "-"}
        body == IF signed THEN Tail(s) ELSE s
        valid == /\ body # <<>>
                 /\ \A i \in 1..Len(body) : IsDigit(body[i]) \/ body[i] = "_"
                 /\ IsDigit(body[1])
                 /\ IsDigit(body[Len(body)])
                 /\ \A i \in 1..(Len(body) - 1) : ~(body[i] = "_" /\ body[i + 1] = "_")
    IN IF ~valid THEN <<>>
       ELSE IF signed /\ s[1] = "-" THEN <<0 - NatVal(body, 0)>>
       ELSE <<NatVal(body, 0)>>

\* Point.from_string: `x, y = map(int, xy.split(','))`; the unpacking fails
\* with a ValueError on a component that is no integer and on any number of
\* components other than two
Point_from_string(xy) ==
    LET parts == Split(xy, ",")
        x == PyInt(parts[1])
        y == PyInt(parts[2])
    IN IF Len(parts) = 2 /\ x # <<>> /\ y # <<>>
       THEN [raised |-> "none", point |-> <<x[1], y[1]>>]
       ELSE [raised |-> "ValueError", point |-> <<>>]

\* Polygon.from_page_coords: list(map(Point.from_string, coords.split(' ')))
from_page_coords(coords) ==
    LET tokens == Split(coords, " ")
        parsed == list_of([i \in 1..Len(tokens) |-> Point_from_string(tokens[i])])
    IN IF \E i \in 1..Len(tokens) : parsed[i].raised # "none"
       THEN [raised |-> "ValueError", points |-> <<>>]
       ELSE [raised |-> "none", points |-> list_of([i \in 1..Len(tokens) |-> parsed[i].point])]

\* src/octopy/util.py to_points
to_points(coords) == JoinPoints(coords, 1)

\* what from_points does with one pair: (int(x_y[0]), int(x_y[1])) of
\* x_y = pair.split(','), so components after the second are never read
from_points_pair(pair) ==
    LET x_y == Split(pair, ",")
        x == PyInt(x_y[1])
        y == PyInt(x_y[2])
    IN IF x = <<>> THEN [raised |-> "ValueError", point |-> <<>>]
       ELSE IF Len(x_y) < 2 THEN [raised |-> "IndexError", point |-> <<>>]
       ELSE IF y = <<>> THEN [raised |-> "ValueError", point |-> <<>>]
       ELSE [raised |-> "none", point |-> <<x[1], y[1]>>]

\* src/octopy/util.py from_points: the exception is the one of the first pair that fails
from_points(points) ==
    LET pairs == Split(points, " ")
        parsed == list_of([i \in 1..Len(pairs) |-> from_points_pair(pairs[i])])
        bad == {i \in 1..Len(pairs) : parsed[i].raised # "none"}
    IN IF bad # {}
       THEN [raised |-> parsed[CHOOSE i \in bad : \A j \in bad : i <= j].raised, points |-> <<>>]
       ELSE [raised |-> "none", points |-> list_of([i \in 1..Len(pairs) |-> parsed[i].point])]

(***************************************************************************)
(* modules/postproc.py: the sort filters.  list.sort(key=...) computes the *)
(* key of every item first, in list order, and then sorts stably; an       *)
(* exception of the key function leaves the list as it was.                *)
(***************************************************************************)
MaxSorted == 3

\* Element.get_coords_element: the first Coords child, None (<<>>) without one
get_coords_element(element) ==
    LET at == {i \in 1..Len(element.elements) : element.elements[i].etype = "Coords"} IN
    IF at = {} THEN <<>> ELSE <<element.elements[CHOOSE i \in at : \A j \in at : i <= j]>>

\* Polygon.from_page_coords(e.get_coords_element()['points']).center(): the
\* subscript of None is a TypeError, a malformed string a ValueError
element_center(element) ==
    LET coords == get_coords_element(element) IN
    IF coords = <<>>
    THEN [raised |-> "TypeError", point |-> <<>>]
    ELSE LET polygon == from_page_coords(coords[1].attributes.points) IN
         IF polygon.raised # "none"
         THEN [raised |-> polygon.raised, point |-> <<>>]
         ELSE [raised |-> "none", point |-> center(polygon.points)]

\* a key that reads the other coordinate of the center
sort_regions_key_y(r) ==
    IF r.etype # "TextRegion"
    THEN [raised |-> "none", key |-> -1]
    ELSE LET c == element_center(r) IN
         IF c.raised # "none"
         THEN [raised |-> c.raised, key |-> 0]
         ELSE [raised |-> "none", key |-> c.point[2]]

\* modules/postproc.py: the key of pxml_sort_regions
sort_regions_key(r) ==
    IF r.etype # "TextRegion"
    THEN [raised |-> "none", key |-> -1]
    ELSE LET c == element_center(r) IN
         IF c.raised # "none"
         THEN [raised |-> c.raised, key |-> 0]
         ELSE [raised |-> "none", key |-> c.point[1]]

\* a key that reads the other coordinate of the center
sort_lines_key_x(l) ==
    IF l.etype # "TextLine"
    THEN [raised |-> "none", key |-> -1]
    ELSE LET c == element_center(l) IN
         IF c.raised # "none"
         THEN [raised |-> c.raised, key |-> 0]
         ELSE [raised |-> "none", key |-> c.point[1]]

\* modules/postproc.py: the key of pxml_sort_lines
sort_lines_key(l) ==
    IF l.etype # "TextLine"
    THEN [raised |-> "none", key |-> -1]
    ELSE LET c == element_center(l) IN
         IF c.raised # "none"
         THEN [raised |-> c.raised, key |-> 0]
         ELSE [raised |-> "none", key |-> c.point[2]]

\* the pair <<key, item>> put into a sorted list after the pairs whose key is not greater
InsertPair(sorted, pair) ==
    LET k == Cardinality({i \in 1..Len(sorted) : sorted[i][1] <= pair[1]}) IN
    SubSeq(sorted, 1, k) \o <<pair>> \o SubSeq(sorted, k + 1, Len(sorted))

RECURSIVE StableSort(_, _, _)
\* list.sort on the pairs <<key, item>>: the pairs from the i-th on are inserted into acc
StableSort(pairs, i, acc) ==
    IF i > Len(pairs) THEN acc ELSE StableSort(pairs, i + 1, InsertPair(acc, pairs[i]))

\* list.sort(key=...) given the keys: the sorted list, or the first exception of a key
list_sort(items, keys) ==
    LET bad == {i \in 1..Len(items) : keys[i].raised # "none"} IN
    IF bad # {}
    THEN [raised |-> keys[CHOOSE i \in bad : \A j \in bad : i <= j].raised, items |-> items]
    ELSE LET sorted == StableSort(list_of([i \in 1..Len(items) |-> <<keys[i].key, items[i]>>]), 1, <<>>)
         IN [raised |-> "none", items |-> list_of([i \in 1..Len(items) |-> sorted[i][2]])]

\* what a filter leaves: the caller's list, the value returned and the exception
filter_result(regions, sorted, inplace) ==
    IF sorted.raised # "none"
    THEN [regions |-> regions, returned |-> <<>>, raised |-> sorted.raised]
    ELSE IF inplace
    THEN [regions |-> sorted.items, returned |-> <<>>, raised |-> "none"]
    ELSE [regions |-> regions, returned |-> <<sorted.items>>, raised |-> "none"]

\* modules/postproc.py pxml_sort_regions
pxml_sort_regions(regions, inplace) ==
    filter_result(regions,
                  list_sort(regions, list_of([i \in 1..Len(regions) |-> sort_regions_key(regions[i])])),
                  inplace)

\* modules/postproc.py pxml_sort_lines
pxml_sort_lines(lines, inplace) ==
    filter_result(lines,
                  list_sort(lines, list_of([i \in 1..Len(lines) |-> sort_lines_key(lines[i])])),
                  inplace)

\* an element with the given children
ElementOf(etype, id, children) ==
    [etype |-> etype, attributes |-> [id |-> id], elements |-> children]

Baseline(points) == [etype |-> "Baseline", attributes |-> [points |-> points], elements |-> <<>>]

\* regions a caller may sort: centers at x = 80, 20, 20 (the centroid 20.5
\* rounded), an image at 50, a table at 5 and a TextRegion without Coords
SortRegionPool ==
    { ElementOf("TextRegion", <<"a">>, <<Coords(to_page_coords(Rect(70, 0, 90, 10)))>>),
      ElementOf("TextRegion", <<"b">>, <<Coords(to_page_coords(Rect(10, 0, 30, 10)))>>),
      ElementOf("TextRegion", <<"c">>, <<Coords(to_page_coords(Rect(10, 20, 31, 30))),
                                         TextLine(<<"l", "1">>)>>),
      ElementOf("ImageRegion", <<"d">>, <<Coords(to_page_coords(Rect(40, 0, 60, 10)))>>),
      ElementOf("TableRegion", <<"e">>, <<Coords(to_page_coords(Rect(0, 0, 10, 10)))>>),
      ElementOf("TextRegion", <<"f">>, <<TextLine(<<"l", "2">>)>>) }

\* lines a caller may sort: centers at y = 5, 25, 25 (a triangle), 45 and
\* a TextLine without Coords
SortLinePool ==
    { ElementOf("TextLine", <<"p">>, <<Coords(to_page_coords(Rect(50, 0, 60, 10)))>>),
      ElementOf("TextLine", <<"q">>, <<Coords(to_page_coords(Rect(0, 20, 10, 30)))>>),
      ElementOf("TextLine", <<"r">>,
                <<Coords(to_page_coords(<<<<20, 22>>, <<30, 22>>, <<20, 31>>>>))>>),
      ElementOf("TextLine", <<"s">>,
                <<Baseline(to_page_coords(<<<<5, 48>>, <<15, 48>>>>)),
                  Coords(to_page_coords(Rect(5, 40, 15, 50)))>>),
      ElementOf("TextLine", <<"t">>, <<Baseline(to_page_coords(<<<<0, 60>>, <<9, 60>>>>))>>) }

InitSort ==
    /\ page = Page_new
    /\ \E s \in DistinctSeqs(SortRegionPool, MaxSorted) \cup DistinctSeqs(SortLinePool, MaxSorted) :
          \E b \in BOOLEAN :
             flt = [pc |-> "ready", given |-> s, regions |-> s, inplace |-> b,
                    returned |-> <<>>, raised |-> "none"]
    /\ res = NoRes
    /\ args = Idle
    /\ doc = NoDoc

\* a call of pxml_sort_regions(regions, inplace)
SortRegions ==
    /\ flt.pc = "ready"
    /\ LET r == pxml_sort_regions(flt.regions, flt.inplace) IN
       flt' = [flt EXCEPT !.pc = "pxml_sort_regions", !.regions = r.regions,
                          !.returned = r.returned, !.raised = r.raised]
    /\ UNCHANGED <<page, res, args, doc>>

\* a call of pxml_sort_lines(lines, inplace)
SortLines ==
    /\ flt.pc = "ready"
    /\ LET r == pxml_sort_lines(flt.regions, flt.inplace) IN
       flt' = [flt EXCEPT !.pc = "pxml_sort_lines", !.regions = r.regions,
                          !.returned = r.returned, !.raised = r.raised]
    /\ UNCHANGED <<page, res, args, doc>>

NextSort == SortRegions \/ SortLines

SpecSort == InitSort /\ [][NextSort]_vars

\* every item of the list given is of one of the types and has a Coords polygon
GivenWithPolygons(etypes) ==
    \A i \in 1..Len(flt.given) :
        /\ flt.given[i].etype \in etypes
        /\ element_center(flt.given[i]).raised = "none"

\* the center of the element's polygon as Polygon.center() gives it
CenterOf(element) == element_center(element).point

\* what pxml_sort_regions sorts by
RegionKey(element) == IF element.etype = "TextRegion" THEN CenterOf(element)[1] ELSE -1

\* the list is the list given in another order
PermutationOfGiven(s) ==
    Len(s) = Len(flt.given) /\ Range(s) = Range(flt.given)

MaxShrinkRegions == 2

\* the k-th smallest value of a non-empty list
Kth(values, k) ==
    CHOOSE v \in Range(values) :
        /\ Cardinality({i \in 1..Len(values) : values[i] < v}) < k
        /\ Cardinality({i \in 1..Len(values) : values[i] <= v}) >= k

\* twice numpy.median of a non-empty list of integers
Median2(values) ==
    LET n == Len(values) IN
    IF n % 2 = 1
    THEN 2 * Kth(values, (n + 1) \div 2)
    ELSE Kth(values, n \div 2) + Kth(values, n \div 2 + 1)

\* src/octopy/util.py estimate_scales: stats always has the row of the
\* background, so `len(stats) > 0` holds; the median of no value is nan, and
\* round(nan) raises a ValueError
estimate_scales(components) ==
    IF components = <<>>
    THEN [raised |-> "ValueError", scales |-> <<>>]
    ELSE [raised |-> "none",
          scales |-> <<Max(1, PyRound(Median2(list_of([i \in 1..Len(components) |-> components[i][1]])), 2)),
                       Max(1, PyRound(Median2(list_of([i \in 1..Len(components) |-> components[i][2]])), 2))>>]

RECURSIVE SumAreas(_, _)
\* sum(areas), from the i-th contour on
SumAreas(contours, i) ==
    IF i > Len(contours) THEN 0 ELSE contours[i].area + SumAreas(contours, i + 1)

\* src/octopy/shrink.py validate_polygons: the merged polygon when the union
\* is one, else `list[merged_geom]` is a generic alias and not a list: up to
\* Python 3.10 it cannot be iterated (TypeError), from 3.11 on the iteration
\* hands out an alias without the attribute centroid (AttributeError)
validate_polygons(view, python) ==
    IF view.merged = "Polygon"
    THEN [raised |-> "none", exterior |-> view.exterior]
    ELSE [raised |-> IF python = "3.10" THEN "TypeError" ELSE "AttributeError", exterior |-> <<>>]

\* a test of the height alone
size_mismatch_height_only(h, w, pagexml) == h # pagexml.height

\* src/octopy/shrink.py: `if h != pagexml.height or w != pagexml.width`
size_mismatch(h, w, pagexml) == h # pagexml.height \/ w # pagexml.width

\* the test with its `not` lost
filtered_out_inverted(region, valid_regions) ==
    valid_regions # <<>> /\ region.etype \in Range(valid_regions)

\* src/octopy/shrink.py: `if valid_regions and region.type.value not in
\* valid_regions`; None and the empty list are <<>>
filtered_out(region, valid_regions) ==
    valid_regions # <<>> /\ region.etype \notin Range(valid_regions)

\* src/octopy/shrink.py: the body of `for region in pagexml.regions` for one
\* region: the region's Coords points afterwards (<<>> without Coords), what
\* was done, glyph_width and glyph_height once they are assigned (<<>>
\* before) and the exception that left the body
shrink_region(region, view, valid_regions, python) ==
    IF filtered_out(region, valid_regions)
    THEN [coords |-> region.coords, did |-> "filtered", scales |-> <<>>, raised |-> "none"]
    ELSE IF region.coords = <<>>
    THEN [coords |-> region.coords, did |-> "no Coords", scales |-> <<>>, raised |-> "none"]
    ELSE LET region_polygon == from_points(region.coords[1])
             scales == IF region.etype \in {"TextRegion", "SeparatorRegion"}
                       THEN estimate_scales(view.components)
                       ELSE [raised |-> "none", scales |-> <<25, 25>>]
             polys == SelectSeq(view.contours, LAMBDA c : c.buffered > 0)
             poly == validate_polygons(view, python)
         IN IF region_polygon.raised # "none"
            THEN [coords |-> region.coords, did |-> "raised", scales |-> <<>>,
                  raised |-> region_polygon.raised]
            ELSE IF scales.raised # "none"
            THEN [coords |-> region.coords, did |-> "raised", scales |-> <<>>, raised |-> scales.raised]
            ELSE IF SumAreas(view.contours, 1) = 0
            THEN [coords |-> region.coords, did |-> "area 0", scales |-> scales.scales, raised |-> "none"]
            ELSE IF polys = <<>>
            THEN [coords |-> region.coords, did |-> "could not shrink", scales |-> scales.scales,
                  raised |-> "none"]
            ELSE IF poly.raised # "none"
            THEN [coords |-> region.coords, did |-> "raised", scales |-> scales.scales, raised |-> poly.raised]
            ELSE [coords |-> <<to_points(poly.exterior)>>, did |-> "shrunk", scales |-> scales.scales,
                  raised |-> "none"]

\* a write that reaches the Coords of the region's lines as well
set_points_every_coords(regions, k, coords) ==
    [regions EXCEPT ![k].coords = coords,
                    ![k].lines = IF coords = <<>>
                                 THEN @
                                 ELSE list_of([i \in 1..Len(@) |-> [@[i] EXCEPT !.coords = coords[1]]])]

\* src/octopy/shrink.py: `coords_element['points'] = ...` on the Coords that
\* region.get_coords() gave for the k-th region; coords is what shrink_region
\* left, the points the region had when nothing was assigned
set_points(regions, k, coords) == [regions EXCEPT ![k].coords = coords]

RECURSIVE shrink_loop(_, _, _, _, _)
\* src/octopy/shrink.py: `for region in pagexml.regions`, from the k-th region on
shrink_loop(st, views, k, valid_regions, python) ==
    IF k > Len(st.regions) \/ st.raised # "none"
    THEN st
    ELSE LET r == shrink_region(st.regions[k], views[k], valid_regions, python) IN
         shrink_loop([regions |-> set_points(st.regions, k, r.coords),
                      did |-> Append(st.did, r.did),
                      scales |-> Append(st.scales, r.scales),
                      raised |-> r.raised],
                     views, k + 1, valid_regions, python)

\* src/octopy/shrink.py region_shrink: the document afterwards, what was done
\* with each region the loop came to, the glyph scales used for it, and the
\* exception that left the call.
\* cv2.imread gives None for a file it cannot read, and ~None is a TypeError.
region_shrink(pagexml, image, valid_regions, python) ==
    IF ~image.readable
    THEN [regions |-> pagexml.regions, did |-> <<>>, scales |-> <<>>, raised |-> "TypeError"]
    ELSE IF size_mismatch(image.height, image.width, pagexml)
    THEN [regions |-> pagexml.regions, did |-> <<>>, scales |-> <<>>, raised |-> "ValueError"]
    ELSE shrink_loop([regions |-> pagexml.regions, did |-> <<>>, scales |-> <<>>, raised |-> "none"],
                     image.views, 1, valid_regions, python)

\* what the image shows under a region
View(components, contours, merged, exterior) ==
    [components |-> components, contours |-> contours, merged |-> merged, exterior |-> exterior]

Contour(area, buffered) == [area |-> area, buffered |-> buffered]

\* the closed exterior ring of a rectangle
Ring(x0, y0, x1, y1) == Rect(x0, y0, x1, y1) \o <<<<x0, y0>>>>

NoInk == View(<<>>, <<>>, "Polygon", <<>>)

\* a region of a document together with what the image shows under it:
\* text that shrinks to one polygon, a text region and an image region
\* without ink, fragments that do not join, a region without Coords, a
\* contour without area, polygons that the buffer empties, a points string
\* with a malformed pair, and a graphic that shrinks to one polygon
ShrinkCases ==
    { [etype |-> "TextRegion", coords |-> <<to_points(Rect(0, 0, 60, 40))>>,
       view |-> View(<<<<8, 12>>, <<9, 12>>, <<30, 2>>>>, <<Contour(900, 400)>>, "Polygon",
                     Ring(5, 5, 50, 30))],
      [etype |-> "TextRegion", coords |-> <<to_points(Rect(0, 40, 60, 80))>>, view |-> NoInk],
      [etype |-> "ImageRegion", coords |-> <<to_points(Rect(60, 0, 100, 40))>>, view |-> NoInk],
      [etype |-> "ImageRegion", coords |-> <<to_points(Rect(60, 40, 100, 80))>>,
       view |-> View(<<<<4, 4>>, <<5, 6>>>>, <<Contour(300, 120), Contour(200, 60)>>, "MultiPolygon",
                     <<>>)],
      [etype |-> "TextRegion", coords |-> <<>>,
       view |-> View(<<<<8, 12>>>>, <<Contour(500, 200)>>, "Polygon", Ring(1, 1, 9, 9))],
      [etype |-> "SeparatorRegion", coords |-> <<to_points(Rect(0, 80, 100, 82))>>,
       view |-> View(<<<<1, 1>>>>, <<Contour(0, 0)>>, "Polygon", <<>>)],
      [etype |-> "TableRegion", coords |-> <<to_points(Rect(0, 82, 100, 100))>>,
       view |-> View(<<<<3, 3>>>>, <<Contour(30, 0)>>, "Polygon", <<>>)],
      [etype |-> "TextRegion", coords |-> <<<<"1", ",", "2", " ", "3">>>>,
       view |-> View(<<<<8, 12>>>>, <<Contour(500, 200)>>, "Polygon", Ring(1, 1, 9, 9))],
      [etype |-> "GraphicRegion", coords |-> <<to_points(Rect(0, 100, 100, 120))>>,
       view |-> View(<<<<20, 10>>>>, <<Contour(700, 300)>>, "Polygon", Ring(10, 102, 90, 118))] }

\* the TextLine children of the k-th region: a text region has one line with
\* Coords and a Baseline, regions of other types have none
ShrinkLines(case, k) ==
    IF case.etype = "TextRegion"
    THEN <<[id |-> <<"l">> \o NatStr(k), coords |-> to_points(Rect(1, 1, 9, 9)),
            baseline |-> to_points(<<<<1, 5>>, <<9, 5>>>>)]>>
    ELSE <<>>

\* the PageXML of a page of 100 by 120 pixels with the regions of the cases
ShrinkDocument(cases) ==
    [width |-> 100, height |-> 120,
     regions |-> list_of([k \in 1..Len(cases) |->
                    [id |-> <<"r">> \o NatStr(k), etype |-> cases[k].etype, coords |-> cases[k].coords,
                     lines |-> ShrinkLines(cases[k], k)]])]

\* the image file: its pixel size and what it shows under each region
ShrinkImage(cases, size, readable) ==
    [readable |-> readable, width |-> size[1], height |-> size[2],
     views |-> list_of([k \in 1..Len(cases) |-> cases[k].view])]

\* the lists of items of S, at most n long
RECURSIVE Seqs(_, _)
Seqs(S, n) ==
    IF n = 0 THEN {<<>>} ELSE Seqs(S, n - 1) \cup {Append(s, x) : s \in Seqs(S, n - 1), x \in S}

\* pixel sizes (width, height) of the image: of the page, wider, lower
ImageSizes == {<<100, 120>>, <<101, 120>>, <<100, 119>>}

InitShrink ==
    /\ page = Page_new
    /\ flt = NoFilter
    /\ \E cases \in Seqs(ShrinkCases, MaxShrinkRegions) :
          \E size \in ImageSizes, readable \in BOOLEAN, python \in {"3.10", "3.11"} :
             res = [kind |-> "shrink", pagexml |-> ShrinkDocument(cases),
                    image |-> ShrinkImage(cases, size, readable), python |-> python]
    /\ args = Idle
    /\ doc = NoDoc

\* a call of region_shrink(pagexml, image, valid_regions=...)
CallRegionShrink ==
    \E valid_regions \in {<<>>, <<"TextRegion">>} :
        /\ args.fn = "none"
        /\ args' = [fn |-> "region_shrink", valid_regions |-> valid_regions]
        /\ doc' = region_shrink(res.pagexml, res.image, valid_regions, res.python)
        /\ UNCHANGED <<page, flt, res>>

NextShrink == CallRegionShrink

SpecShrink == InitShrink /\ [][NextShrink]_vars

\* the loop came to the k-th region
CameTo(k) == k <= Len(doc.did)

\* the loop left the k-th region without an exception
LeftBehind(k) == CameTo(k) /\ doc.did[k] # "raised"

\* the k-th region is one that region_shrink is asked to shrink
Shrinkable(k) ==
    /\ res.pagexml.regions[k].coords # <<>>
    /\ args.valid_regions # <<>> => res.pagexml.regions[k].etype \in Range(args.valid_regions)

\* C14: when the image's height or width differs from the page's,
\* region_shrink raises an error and every region has the Coords points it had.
C14_SizeMismatchFatal ==
    (args.fn = "region_shrink" /\ res.image.readable
     /\ (res.image.height # res.pagexml.height \/ res.image.width # res.pagexml.width)) =>
        /\ doc.raised = "ValueError"
        /\ doc.did = <<>>
        /\ doc.regions = res.pagexml.regions

\* the width alone differs, for a document whose first region would have been shrunk
C14_Witness ==
    /\ args.fn = "region_shrink"
    /\ res.image.readable
    /\ res.image.height = res.pagexml.height
    /\ res.image.width # res.pagexml.width
    /\ Len(res.pagexml.regions) >= 1
    /\ res.image.views[1].merged = "Polygon"
    /\ res.image.views[1].exterior # <<>>
    /\ res.pagexml.regions[1].coords # <<>>
    /\ doc.raised = "ValueError"

\* C15: a region of any type whose masked image has no ink, once the loop
\* comes to it, keeps its Coords points and raises nothing, and the loop
\* comes to the region after it.
C15_EmptyRegionLeftAlone ==
    args.fn = "region_shrink" =>
        \A k \in 1..Len(res.pagexml.regions) :
            (CameTo(k) /\ Shrinkable(k) /\ from_points(res.pagexml.regions[k].coords[1]).raised = "none"
             /\ res.image.views[k].components = <<>>) =>
                /\ doc.regions[k].coords = res.pagexml.regions[k].coords
                /\ LeftBehind(k)
                /\ k < Len(res.pagexml.regions) => CameTo(k + 1)

\* C16: a region whose buffered polygons do not union into one polygon, once
\* the loop comes to it, has the Coords points it had or the ring of one
\* polygon, raises nothing, and the loop comes to the region after it.
C16_MergeFailureRecovered ==
    args.fn = "region_shrink" =>
        \A k \in 1..Len(res.pagexml.regions) :
            (CameTo(k) /\ Shrinkable(k) /\ from_points(res.pagexml.regions[k].coords[1]).raised = "none"
             /\ SelectSeq(res.image.views[k].contours, LAMBDA c : c.buffered > 0) # <<>>
             /\ res.image.views[k].merged = "MultiPolygon") =>
                /\ \/ doc.regions[k].coords = res.pagexml.regions[k].coords
                   \/ /\ doc.regions[k].coords # <<>>
                      /\ from_points(doc.regions[k].coords[1]).raised = "none"
                /\ LeftBehind(k)
                /\ k < Len(res.pagexml.regions) => CameTo(k + 1)

\* C22: estimate_scales gives (25, 25) for a masked image without a
\* component of ink, and region_shrink uses (25, 25) for every region that is
\* neither a TextRegion nor a SeparatorRegion: whenever the loop comes to
\* such a region, 25 and 25 are the glyph scales it works with.
C22_GlyphScaleFallback ==
    args.fn = "region_shrink" =>
        \A k \in 1..Len(res.pagexml.regions) :
            (CameTo(k) /\ Shrinkable(k) /\ from_points(res.pagexml.regions[k].coords[1]).raised = "none"
             /\ \/ res.image.views[k].components = <<>>
                \/ res.pagexml.regions[k].etype \notin {"TextRegion", "SeparatorRegion"}) =>
                doc.scales[k] = <<25, 25>>

\* C23: when region_shrink returns, the document has the regions it had, in
\* their order, each with its id, its type and its line children (their
\* Coords and Baselines included); the points of the regions' own Coords are
\* all that may differ, and a region without Coords has none afterwards.
C23_Frame ==
    (args.fn = "region_shrink" /\ doc.raised = "none") =>
        /\ Len(doc.regions) = Len(res.pagexml.regions)
        /\ \A k \in 1..Len(doc.regions) :
              /\ doc.regions[k].id = res.pagexml.regions[k].id
              /\ doc.regions[k].etype = res.pagexml.regions[k].etype
              /\ doc.regions[k].lines = res.pagexml.regions[k].lines
              /\ doc.regions[k].coords = <<>> <=> res.pagexml.regions[k].coords = <<>>

\* a text region with a line was shrunk to other points, next to a second region
C23_Witness ==
    /\ args.fn = "region_shrink"
    /\ doc.raised = "none"
    /\ Len(doc.regions) = 2
    /\ \E k \in 1..2 :
          /\ doc.did[k] = "shrunk"
          /\ doc.regions[k].coords # res.pagexml.regions[k].coords
          /\ doc.regions[k].lines # <<>>

\* C24: with a non-empty valid_regions, every region whose type is not in
\* the list keeps its Coords points; with valid_regions None or empty, no
\* region the loop comes to is passed over for its type.
C24_ValidRegionsFilter ==
    args.fn = "region_shrink" =>
        \A k \in 1..Len(res.pagexml.regions) :
            /\ (args.valid_regions # <<>>
                /\ res.pagexml.regions[k].etype \notin Range(args.valid_regions)) =>
                   doc.regions[k].coords = res.pagexml.regions[k].coords
            /\ (args.valid_regions = <<>> /\ CameTo(k)) => doc.did[k] # "filtered"

\* with valid_regions = ["TextRegion"] a text region was shrunk and a graphic
\* that the image would shrink was passed over
C24_Witness ==
    /\ args.fn = "region_shrink"
    /\ args.valid_regions = <<"TextRegion">>
    /\ doc.raised = "none"
    /\ Len(doc.regions) = 2
    /\ doc.did = <<"shrunk", "filtered">>
    /\ res.pagexml.regions[2].etype = "GraphicRegion"
    /\ res.image.views[2].exterior # <<>>

(***************************************************************************)
(* The batch loops: segment of octopy/segment.py and modules/segment.py,   *)
(* shrink_cli of src/cli/shrink_cli.py.  One step of a loop is one action; *)
(* an exception that nothing catches ends the run.                         *)
(***************************************************************************)
MaxImages == 3

MaxDocs == 3

\* what happens to an image file: it is segmented, Image.open fails on it,
\* or blla.segment fails on it
ImageKinds == {"ok", "unreadable", "unsegmentable"}

\* what loading the models gives: all load, one fails to load, or one is no
\* segmentation model
ModelKinds == {"ok", "load error", "invalid"}

\* the model loading of segment: the loop is entered ("loop"), the function
\* returns ("returned") or raises ("raised")
load_models(fn, images, models) ==
    IF fn = "modules/segment.py"
    THEN IF Len(images) < 1 THEN "returned"
         ELSE IF models = "load error" THEN "returned"
         ELSE IF models = "invalid" THEN "raised"
         ELSE "loop"
    ELSE IF models = "invalid" THEN "raised" ELSE "loop"

\* the body of `for fp in images` (`for image in image_iterator`) for one
\* image: Image.open, blla.segment, the adapter, and the writing of the file
segment_image(image) ==
    IF image = "unreadable" THEN [raised |-> "UnidentifiedImageError", wrote |-> FALSE]
    ELSE IF image = "unsegmentable" THEN [raised |-> "KrakenInputException", wrote |-> FALSE]
    ELSE [raised |-> "none", wrote |-> TRUE]

InitSegment ==
    /\ page = Page_new
    /\ flt = NoFilter
    /\ \E images \in Seqs(ImageKinds, MaxImages), models \in ModelKinds :
          res = [kind |-> "images", images |-> images, models |-> models]
    /\ args = Idle
    /\ doc = NoDoc

\* segment(images, models, ...) is called and loads its models
StartSegment ==
    \E fn \in {"octopy/segment.py", "modules/segment.py"} :
        /\ args.fn = "none"
        /\ args' = [fn |-> fn, pc |-> load_models(fn, res.images, res.models), i |-> 0,
                    raised |-> IF load_models(fn, res.images, res.models) = "raised"
                               THEN "KrakenInvalidModelException" ELSE "none"]
        /\ doc' = [written |-> <<>>]
        /\ UNCHANGED <<page, flt, res>>

\* one pass of the loop over the images
SegmentNext ==
    /\ args.fn \in {"octopy/segment.py", "modules/segment.py"}
    /\ args.pc = "loop"
    /\ args.i < Len(res.images)
    /\ LET r == segment_image(res.images[args.i + 1]) IN
          /\ args' = [args EXCEPT !.i = @ + 1,
                                  !.pc = IF r.raised # "none" THEN "raised" ELSE @,
                                  !.raised = r.raised]
          /\ doc' = [written |-> IF r.wrote THEN Append(doc.written, args.i + 1) ELSE doc.written]
    /\ UNCHANGED <<page, flt, res>>

\* the loop over the images is exhausted
SegmentDone ==
    /\ args.fn \in {"octopy/segment.py", "modules/segment.py"}
    /\ args.pc = "loop"
    /\ args.i = Len(res.images)
    /\ args' = [args EXCEPT !.pc = "done"]
    /\ UNCHANGED <<page, flt, res, doc>>

NextSegment == StartSegment \/ SegmentNext \/ SegmentDone

SpecSegment == InitSegment /\ [][NextSegment]_vars

\* C17: when the run of segment's loop has ended and processing image i
\* failed, the PageXML file of every image after i that can be segmented
\* has been written.
C17_BatchContinues ==
    (args.fn \in {"octopy/segment.py", "modules/segment.py"} /\ args.pc \in {"done", "raised"}
     /\ args.i >= 1) =>
        \A i \in 1..Len(res.images) :
            (i <= args.i /\ res.images[i] # "ok") =>
                \A j \in (i + 1)..Len(res.images) :
                    res.images[j] = "ok" => j \in Range(doc.written)

\* a document of shrink_cli's batch: the PageXML file, whether the image file
\* with the input suffix exists, and the image
ShrinkItem(cases, size, exists) ==
    [pagexml |-> ShrinkDocument(cases), exists |-> exists, image |-> ShrinkImage(cases, size, TRUE)]

\* the documents of a batch: one that is shrunk, one whose image is wider
\* than the page, one whose image is lower, one without image file, one
\* whose only region has no ink
ShrinkItems ==
    LET text == CHOOSE c \in ShrinkCases : c.etype = "TextRegion" /\ c.view.exterior = Ring(5, 5, 50, 30)
        image == CHOOSE c \in ShrinkCases : c.etype = "ImageRegion" /\ c.view = NoInk
    IN { ShrinkItem(<<text>>, <<100, 120>>, TRUE),
         ShrinkItem(<<text, image>>, <<101, 120>>, TRUE),
         ShrinkItem(<<text>>, <<100, 119>>, TRUE),
         ShrinkItem(<<text>>, <<100, 120>>, FALSE),
         ShrinkItem(<<image>>, <<100, 120>>, TRUE) }

InitShrinkCli ==
    /\ page = Page_new
    /\ flt = NoFilter
    /\ \E items \in Seqs(ShrinkItems, MaxDocs), python \in {"3.10", "3.11"} :
          res = [kind |-> "documents", items |-> items, python |-> python]
    /\ args = Idle
    /\ doc = NoDoc

\* shrink_cli is called
StartShrinkCli ==
    \E valid_regions \in {<<>>, <<"TextRegion">>} :
        /\ args.fn = "none"
        /\ args' = [fn |-> "shrink_cli", pc |-> "loop", i |-> 0, valid_regions |-> valid_regions,
                    raised |-> "none"]
        /\ doc' = [written |-> <<>>]
        /\ UNCHANGED <<page, flt, res>>

\* one pass of `for i in track(range(len(pagexml)))`: the document is passed
\* over without its image, else region_shrink(...).to_xml(outfile)
ShrinkCliNext ==
    /\ args.fn = "shrink_cli"
    /\ args.pc = "loop"
    /\ args.i < Len(res.items)
    /\ LET item == res.items[args.i + 1]
           r == region_shrink(item.pagexml, item.image, args.valid_regions, res.python)
       IN IF ~item.exists
          THEN /\ args' = [args EXCEPT !.i = @ + 1]
               /\ doc' = doc
          ELSE IF r.raised # "none"
          THEN /\ args' = [args EXCEPT !.i = @ + 1, !.pc = "raised", !.raised = r.raised]
               /\ doc' = doc
          ELSE /\ args' = [args EXCEPT !.i = @ + 1]
               /\ doc' = [written |-> Append(doc.written, [outfile |-> args.i + 1, regions |-> r.regions])]
    /\ UNCHANGED <<page, flt, res>>

\* the loop over the documents is exhausted
ShrinkCliDone ==
    /\ args.fn = "shrink_cli"
    /\ args.pc = "loop"
    /\ args.i = Len(res.items)
    /\ args' = [args EXCEPT !.pc = "done"]
    /\ UNCHANGED <<page, flt, res, doc>>

NextShrinkCli == StartShrinkCli \/ ShrinkCliNext \/ ShrinkCliDone

SpecShrinkCli == InitShrinkCli /\ [][NextShrinkCli]_vars

\* the image of the k-th document exists and its size is not the page's
SizeMismatchAt(k) ==
    /\ res.items[k].exists
    /\ \/ res.items[k].image.height # res.items[k].pagexml.height
       \/ res.items[k].image.width # res.items[k].pagexml.width

\* C18: when the run of shrink_cli's loop has ended, no output file has been
\* written for a document whose image has another size than the page, and
\* the loop came to the document after it.
C18_MismatchAbortsOwnDocument ==
    (args.fn = "shrink_cli" /\ args.pc \in {"done", "raised"}) =>
        \A k \in 1..Len(res.items) :
            (k <= args.i /\ SizeMismatchAt(k)) =>
                /\ \A n \in 1..Len(doc.written) : doc.written[n].outfile # k
                /\ k < Len(res.items) => args.i > k

(***************************************************************************)
(* Serializing and parsing coordinates: a caller serializes a polygon and  *)
(* parses the string again, or parses the points attribute of a document.  *)
(***************************************************************************)
MaxPoints == 3

MaxChars == 5

\* coordinates of the polygons' points
CoordValues == {-3, 0, 105}

\* characters of the points strings that are parsed
Chars == {"1", "-", ",", " ", "x"}

InitCoords ==
    /\ page = Page_new
    /\ flt = NoFilter
    /\ \/ \E points \in Seqs(CoordValues \X CoordValues, MaxPoints) :
             res = [kind |-> "polygon", points |-> points]
       \/ \E text \in Seqs(Chars, MaxChars) :
             res = [kind |-> "string", text |-> text]
    /\ args = Idle
    /\ doc = NoDoc

\* Polygon(points).to_page_coords()
CallToPageCoords ==
    /\ args.fn = "none"
    /\ res.kind = "polygon"
    /\ args' = [fn |-> "to_page_coords", via |-> "none", text |-> to_page_coords(res.points)]
    /\ UNCHANGED <<page, flt, res, doc>>

\* to_points(points)
CallToPoints ==
    /\ args.fn = "none"
    /\ res.kind = "polygon"
    /\ args' = [fn |-> "to_points", via |-> "none", text |-> to_points(res.points)]
    /\ UNCHANGED <<page, flt, res, doc>>

\* Polygon.from_page_coords on the string serialized before, or on the string given
CallFromPageCoords ==
    /\ \/ args.fn \in {"to_page_coords", "to_points"}
       \/ args.fn = "none" /\ res.kind = "string"
    /\ LET text == IF args.fn = "none" THEN res.text ELSE args.text IN
          /\ args' = [fn |-> "from_page_coords", via |-> args.fn, text |-> text]
          /\ doc' = from_page_coords(text)
    /\ UNCHANGED <<page, flt, res>>

\* from_points on the string serialized before, or on the string given
CallFromPoints ==
    /\ \/ args.fn \in {"to_page_coords", "to_points"}
       \/ args.fn = "none" /\ res.kind = "string"
    /\ LET text == IF args.fn = "none" THEN res.text ELSE args.text IN
          /\ args' = [fn |-> "from_points", via |-> args.fn, text |-> text]
          /\ doc' = from_points(text)
    /\ UNCHANGED <<page, flt, res>>

NextCoords == CallToPageCoords \/ CallToPoints \/ CallFromPageCoords \/ CallFromPoints

SpecCoords == InitCoords /\ [][NextCoords]_vars

\* C19: for a polygon of at least three points, Polygon.from_page_coords of
\* its to_page_coords string, and from_points of its to_points string, raise
\* nothing and give the points of the polygon, in their order.
C19_RoundTrip ==
    (res.kind = "polygon" /\ Len(res.points) >= 3
     /\ \/ args.fn = "from_page_coords" /\ args.via = "to_page_coords"
        \/ args.fn = "from_points" /\ args.via = "to_points") =>
        /\ doc.raised = "none"
        /\ Len(doc.points) = Len(res.points)
        /\ doc.points = res.points

\* a polygon with a negative coordinate and one of three digits came back
\* from to_points and from_points
C19_Witness ==
    /\ res.kind = "polygon"
    /\ Len(res.points) = 3
    /\ \E i, j \in 1..3 : res.points[i][1] = -3 /\ res.points[j][2] = 105
    /\ args.fn = "from_points"
    /\ args.via = "to_points"
    /\ doc.points = res.points

\* the text of an integer: an optional sign and then digits, nothing else
IsIntegerText(t) ==
    LET digits == IF t # <<>> /\ t[1] \in {"+", "-"} THEN Tail(t) ELSE t IN
    digits # <<>> /\ \A i \in 1..Len(digits) : IsDigit(digits[i])

\* the token is two integers with one comma between them
IsPair(token) ==
    \E i \in 1..Len(token) :
        /\ token[i] = ","
        /\ IsIntegerText(SubSeq(token, 1, i - 1))
        /\ IsIntegerText(SubSeq(token, i + 1, Len(token)))

\* some space-separated token of the string is not a pair of integers
Malformed(text) ==
    \E i \in 1..Len(Split(text, " ")) : ~IsPair(Split(text, " ")[i])

\* C20: Polygon.from_page_coords and from_points, given a string in which
\* some space-separated token is not exactly two comma-separated integers,
\* raise an error and give no points.
C20_StrictParsing ==
    (args.fn \in {"from_page_coords", "from_points"} /\ Malformed(args.text)) =>
        /\ doc.raised # "none"
        /\ doc.points = <<>>

(***************************************************************************)
(* Polygon.center and Polygon.contains on convex polygons: a caller takes  *)
(* the center of a polygon and asks the polygon whether it contains a      *)
(* point.                                                                  *)
(***************************************************************************)
MaxCoord == 2

MaxCorners == 4

\* the turn at the point after the i-th: the cross product of the i-th edge
\* and the edge after it
Turn(points, i) ==
    Side(points, i, NextPoint(points, (i % Len(points)) + 1))

\* the points are the corners of a strictly convex polygon, in order
Convex(points) ==
    /\ Len(points) >= 3
    /\ \/ \A i \in 1..Len(points) : Turn(points, i) > 0
       \/ \A i \in 1..Len(points) : Turn(points, i) < 0

\* the points with integer coordinates the corners are taken from
Grid == (0..MaxCoord) \X (0..MaxCoord)

InitGeometry ==
    /\ page = Page_new
    /\ flt = NoFilter
    /\ \E n \in 3..MaxCorners : \E points \in [1..n -> Grid] :
          /\ Convex(points)
          /\ res = [kind |-> "polygon", points |-> list_of(points)]
    /\ args = Idle
    /\ doc = NoDoc

\* polygon.center()
CallCenter ==
    /\ args.fn = "none"
    /\ args' = [fn |-> "center", point |-> center(res.points)]
    /\ UNCHANGED <<page, flt, res, doc>>

\* polygon.contains(point), of the center taken before or of a point given
CallContains ==
    /\ args.fn \in {"none", "center"}
    /\ \E point \in (IF args.fn = "center" THEN {args.point} ELSE Grid) :
          /\ args' = [fn |-> "contains", via |-> args.fn, point |-> point]
          /\ doc' = [contains |-> contains(res.points, point)]
    /\ UNCHANGED <<page, flt, res>>

NextGeometry == CallCenter \/ CallContains

SpecGeometry == InitGeometry /\ [][NextGeometry]_vars

\* C21: for every convex polygon P with integer vertices and non-zero area,
\* P.contains(P.center()) is true, center() being the area-weighted centroid
\* rounded to integer coordinates.
C21_CentroidContained ==
    (args.fn = "contains" /\ args.via = "center" /\ Area2(res.points, 1) # 0) =>
        doc.contains

(***************************************************************************)
(* src/octopy/shrink.py validate_polygons on a union of n >= 2 disjoint    *)
(* fragments.  The fragments are numbered 1..n (0..n-1 in the code), and   *)
(* dist is the matrix of the distances of their centroids; its diagonal is *)
(* set to inf in the code and is never compared, as i is in the tree and j *)
(* is not wherever dist_matrix[i, j] is read.                              *)
(***************************************************************************)
MaxFragments == 4

MaxDist == 2

\* src/octopy/shrink.py, the two inner loops of one pass: i and j run upwards
\* and only a strictly smaller distance replaces min_edge, so the edge found
\* is the first, in the order of (i, j), of those of least distance from a
\* fragment in the tree to one outside; None (<<>>) when there is none
min_edge(dist, in_tree, n) ==
    LET edges == {e \in (1..n) \X (1..n) : in_tree[e[1]] /\ ~in_tree[e[2]]} IN
    IF edges = {}
    THEN <<>>
    ELSE <<CHOOSE e \in edges :
             \A f \in edges :
                \/ dist[e[1]][e[2]] < dist[f[1]][f[2]]
                \/ /\ dist[e[1]][e[2]] = dist[f[1]][f[2]]
                   /\ e[1] < f[1] \/ (e[1] = f[1] /\ e[2] <= f[2])>>

\* src/octopy/shrink.py: one pass of `for _ in range(n - 1)`
prim_pass(dist, st, n) ==
    LET found == min_edge(dist, st.in_tree, n) IN
    IF found = <<>>
    THEN st
    ELSE [in_tree |-> [st.in_tree EXCEPT ![found[1][2]] = TRUE],
          mst_edges |-> Append(st.mst_edges, found[1])]

RECURSIVE prim_loop(_, _, _, _)
\* src/octopy/shrink.py: `for _ in range(n - 1)`, the passes that remain
prim_loop(dist, st, n, passes) ==
    IF passes = 0 THEN st ELSE prim_loop(dist, prim_pass(dist, st, n), n, passes - 1)

\* src/octopy/shrink.py: in_tree = [False] * n, in_tree[0] = True, mst_edges = []
prim_start(n) ==
    [in_tree |-> [i \in 1..n |-> i = 1], mst_edges |-> <<>>]

\* src/octopy/shrink.py: `polygons = list[merged_geom]` subscripts the type
\* list and gives a generic alias, not the list of the fragments: up to
\* Python 3.10 the comprehension over it raises a TypeError, from 3.11 on it
\* hands out an alias without the attribute centroid (AttributeError)
fragments_of(merged_geom, python) ==
    [raised |-> IF python = "3.10" THEN "TypeError" ELSE "AttributeError", polygons |-> <<>>]

\* src/octopy/shrink.py validate_polygons, the branch of a union that is not
\* one polygon, up to mst_edges
stitch(merged_geom, python) ==
    LET polygons == fragments_of(merged_geom, python)
        n == Len(polygons.polygons)
    IN IF polygons.raised # "none"
       THEN [raised |-> polygons.raised, in_tree |-> <<>>, mst_edges |-> <<>>]
       ELSE [raised |-> "none"] @@ prim_loop(merged_geom.dist, prim_start(n), n, n - 1)

\* the symmetric matrices of distances 0..MaxDist between n centroids
DistMatrices(n) ==
    LET pairs == {e \in (1..n) \X (1..n) : e[1] < e[2]} IN
    { [i \in 1..n |-> [j \in 1..n |->
          IF i = j THEN 0 ELSE IF i < j THEN d[<<i, j>>] ELSE d[<<j, i>>]]] : d \in [pairs -> 0..MaxDist] }

InitStitch ==
    /\ page = Page_new
    /\ flt = NoFilter
    /\ \E n \in 2..MaxFragments : \E dist \in DistMatrices(n) : \E python \in {"3.10", "3.11"} :
          res = [kind |-> "MultiPolygon", n |-> n, dist |-> dist, python |-> python]
    /\ args = Idle
    /\ doc = NoDoc

\* validate_polygons(polys) with polygons whose union has res.n fragments
CallValidatePolygons ==
    /\ args.fn = "none"
    /\ args' = [fn |-> "validate_polygons"]
    /\ doc' = stitch(res, res.python)
    /\ UNCHANGED <<page, flt, res>>

NextStitch == CallValidatePolygons

SpecStitch == InitStitch /\ [][NextStitch]_vars

\* the loop of validate_polygons by itself, handed the list of the n
\* fragments: one action for each of its passes
InitPrim ==
    /\ page = Page_new
    /\ flt = NoFilter
    /\ \E n \in 2..MaxFragments : \E dist \in DistMatrices(n) :
          res = [kind |-> "fragments", n |-> n, dist |-> dist]
    /\ args = Idle
    /\ doc = NoDoc

PrimStart ==
    /\ args.fn = "none"
    /\ args' = [fn |-> "prim", passes |-> 0]
    /\ doc' = prim_start(res.n)
    /\ UNCHANGED <<page, flt, res>>

PrimPass ==
    /\ args.fn = "prim"
    /\ args.passes < res.n - 1
    /\ args' = [args EXCEPT !.passes = @ + 1]
    /\ doc' = prim_pass(res.dist, doc, res.n)
    /\ UNCHANGED <<page, flt, res>>

PrimDone ==
    /\ args.fn = "prim"
    /\ args.passes = res.n - 1
    /\ args' = [fn |-> "prim done", passes |-> args.passes]
    /\ UNCHANGED <<page, flt, res, doc>>

NextPrim == PrimStart \/ PrimPass \/ PrimDone

SpecPrim == InitPrim /\ [][NextPrim]_vars

\* the fragments reached from fragment 1 over the first k of the edges
RECURSIVE ReachedBy(_, _)
ReachedBy(edges, k) ==
    IF k = 0
    THEN {1}
    ELSE LET before == ReachedBy(edges, k - 1) IN
         IF edges[k][1] \in before /\ edges[k][2] \notin before
         THEN before \cup {edges[k][2]}
         ELSE before

\* every edge joins a fragment reached before to one not yet reached, and at
\* the end every one of the n fragments is reached: a spanning tree
SpanningTree(edges, n) ==
    /\ Len(edges) = n - 1
    /\ \A k \in 1..Len(edges) :
          /\ edges[k][1] \in ReachedBy(edges, k - 1)
          /\ edges[k][2] \notin ReachedBy(edges, k - 1)
    /\ ReachedBy(edges, Len(edges)) = 1..n

RECURSIVE Weight(_, _, _)
\* the sum of the distances of the edges, from the k-th on
Weight(dist, edges, k) ==
    IF k > Len(edges) THEN 0 ELSE dist[edges[k][1]][edges[k][2]] + Weight(dist, edges, k + 1)

\* the lists of n - 1 edges that are spanning trees grown from fragment 1;
\* every spanning tree of the complete graph is one of them in some order
SpanningTrees(n) ==
    {edges \in [1..(n - 1) -> (1..n) \X (1..n)] : SpanningTree(edges, n)}

\* C25: in validate_polygons, for n >= 2 disjoint fragments, the loop selects
\* exactly n - 1 edges, each from a fragment in the tree to one outside it,
\* and at the end every fragment is in the tree.
C25_PrimSpanningTree ==
    (args.fn = "validate_polygons" /\ res.n >= 2) =>
        /\ doc.raised = "none"
        /\ SpanningTree(doc.mst_edges, res.n)
        /\ doc.in_tree = [i \in 1..res.n |-> TRUE]

\* C26: the distances of the edges selected in validate_polygons sum to the
\* least total weight of a spanning tree of the complete graph on the fragments.
C26_PrimMinimal ==
    (args.fn = "validate_polygons" /\ res.n >= 2) =>
        /\ doc.raised = "none"
        /\ Len(doc.mst_edges) = res.n - 1
        /\ \A tree \in SpanningTrees(res.n) :
              Weight(res.dist, doc.mst_edges, 1) <= Weight(res.dist, tree, 1)

\* the loop by itself: after its last pass the edges are a spanning tree of
\* least total weight
PrimLoopCorrect ==
    args.fn = "prim done" =>
        /\ SpanningTree(doc.mst_edges, res.n)
        /\ doc.in_tree = [i \in 1..res.n |-> TRUE]
        /\ \A tree \in SpanningTrees(res.n) :
              Weight(res.dist, doc.mst_edges, 1) <= Weight(res.dist, tree, 1)

(***************************************************************************)
(* Writing a page and loading it again: Page.to_etree and Page.from_etree, *)
(* by themselves or inside PageXML.to_xml and PageXML.from_xml.  A node of *)
(* the element tree is its tag, whether the tag carries a namespace, its   *)
(* attributes and its children.  The elements made by to_etree carry none; *)
(* the file is written with the default namespace declared at the root, so *)
(* that every element parsed from it carries that namespace.               *)
(***************************************************************************)
MaxRoLen == 4

Node(tag, ns, attributes, children) ==
    [tag |-> tag, ns |-> ns, attributes |-> attributes, children |-> children]

RECURSIVE Element_to_etree(_)
\* Element.to_etree
Element_to_etree(element) ==
    Node(element.etype, FALSE, element.attributes,
         list_of([i \in 1..Len(element.elements) |-> Element_to_etree(element.elements[i])]))

\* Page.to_etree: the ReadingOrder block when the reading order is not
\* empty, index=str(i) counting from 0, then the elements
Page_to_etree(p) ==
    LET refs == list_of([i \in 1..Len(p.ro) |->
                    Node("RegionRefIndexed", FALSE, [index |-> NatStr(i - 1), regionRef |-> p.ro[i]], <<>>)])
        reading_order == Node("ReadingOrder", FALSE, <<>>,
                              <<Node("OrderedGroup", FALSE, [id |-> <<"g", "0">>], refs)>>)
    IN Node("Page", FALSE, <<>>,
            (IF Len(p.ro) > 0 THEN <<reading_order>> ELSE <<>>)
            \o list_of([i \in 1..Len(p.elements) |-> Element_to_etree(p.elements[i])]))

\* PageXML.to_etree: the root with Metadata and the pages
PageXML_to_etree(pages) ==
    Node("PcGts", FALSE, <<>>,
         <<Node("Metadata", FALSE, <<>>, <<>>)>>
         \o list_of([i \in 1..Len(pages) |-> Page_to_etree(pages[i])]))

RECURSIVE Parsed(_)
\* etree.parse of the file PageXML.to_xml wrote: every element is in the
\* default namespace of the root
Parsed(node) ==
    [node EXCEPT !.ns = TRUE,
                 !.children = list_of([i \in 1..Len(@) |-> Parsed(@[i])])]

\* the children of the node that have the tag, whatever their namespace
Children(node, tag) == SelectSeq(node.children, LAMBDA c : c.tag = tag)

\* a key of integers for the order of Python on strings of up to three
\* digits: character by character, a prefix before its extensions
LexKey(text) ==
    LET c(i) == IF i <= Len(text) THEN DigitVal(text[i]) + 1 ELSE 0 IN
    c(1) * 121 + c(2) * 11 + c(3)

\* sorted(list(ro_elements), key=lambda i: i.get('index')): by the index as
\* a string
sorted_by_index(ro_elements) ==
    LET pairs == list_of([i \in 1..Len(ro_elements) |->
                     <<LexKey(ro_elements[i].attributes.index), ro_elements[i]>>])
        sorted == StableSort(pairs, 1, <<>>)
    IN list_of([i \in 1..Len(sorted) |-> sorted[i][2]])

RECURSIVE Element_from_etree(_)
\* Element.from_etree: tree.tag.split('}')[1] is an IndexError for a tag
\* without namespace
Element_from_etree(tree) ==
    LET children == list_of([i \in 1..Len(tree.children) |-> Element_from_etree(tree.children[i])])
        bad == {i \in 1..Len(children) : children[i].raised # "none"}
    IN IF ~tree.ns
       THEN [raised |-> "IndexError", element |-> <<>>]
       ELSE IF bad # {}
       THEN [raised |-> children[CHOOSE i \in bad : \A j \in bad : i <= j].raised, element |-> <<>>]
       ELSE [raised |-> "none",
             element |-> [etype |-> tree.tag, attributes |-> tree.attributes,
                          elements |-> list_of([i \in 1..Len(children) |-> children[i].element])]]

RECURSIVE from_etree_elements(_, _, _)
\* Page.from_etree: `for element in tree: page.add_element(..., reading_order=False)`
from_etree_elements(p, children, i) ==
    IF i > Len(children)
    THEN p
    ELSE LET element == Element_from_etree(children[i]) IN
         IF element.raised # "none"
         THEN [p EXCEPT !.raised = element.raised]
         ELSE from_etree_elements(add_element(p, element.element, <<>>, FALSE), children, i + 1)

\* Page.from_etree; parent is the element above the tree, <<>> when the tree
\* has none.  '../{*}RegionRefIndexed' selects the children of the parent
\* that are RegionRefIndexed elements.
Page_from_etree(tree, parent) ==
    LET ro == Children(tree, "ReadingOrder")
        ro_elements == IF parent = <<>> THEN <<>> ELSE Children(parent[1], "RegionRefIndexed")
        sorted == sorted_by_index(ro_elements)
        p == [Page_new EXCEPT !.ro = IF ro # <<>>
                                     THEN list_of([i \in 1..Len(sorted) |-> sorted[i].attributes.regionRef])
                                     ELSE <<>>]
        rest == IF ro # <<>> THEN SelectSeq(tree.children, LAMBDA c : c # ro[1]) ELSE tree.children
    IN from_etree_elements(p, rest, 1)

\* PageXML.from_etree for a file of one page
PageXML_from_etree(tree) ==
    Page_from_etree(Children(tree, "Page")[1], <<tree>>)

\* Page.reading_order, the setter
set_reading_order(p, new_reading_order) == [p EXCEPT !.ro = new_reading_order]

RECURSIVE PageOfRegions(_)
\* the page after create_element(ElementType.TextRegion, id='r<i>') for i = 1..k
PageOfRegions(k) ==
    IF k = 0
    THEN Page_new
    ELSE create_element(PageOfRegions(k - 1), Element_new("TextRegion", [id |-> <<"r">> \o NatStr(k)]), <<>>)

\* a page of up to MaxRoLen regions whose reading order was set to some
\* order of their ids, or to the ids of regions of an empty page
InitRoundTrip ==
    /\ \E k \in 0..MaxRoLen : \E order \in Permutations(1..k) : \E empty \in BOOLEAN :
          page = set_reading_order(IF empty THEN Page_new ELSE PageOfRegions(k),
                                   list_of([i \in 1..k |-> PageOfRegions(k).ro[order[i]]]))
    /\ flt = NoFilter
    /\ res = NoRes
    /\ args = Idle
    /\ doc = NoDoc

\* page.to_etree()
CallToEtree ==
    /\ args.fn = "none"
    /\ args' = [fn |-> "to_etree", tree |-> Page_to_etree(page)]
    /\ UNCHANGED <<page, flt, res, doc>>

\* PageXML.to_xml(fp) of a document with the page: the tree that is written
CallToXml ==
    /\ args.fn = "none"
    /\ args' = [fn |-> "to_xml", tree |-> PageXML_to_etree(<<page>>)]
    /\ UNCHANGED <<page, flt, res, doc>>

\* Page.from_etree(tree) of the tree to_etree gave
CallFromEtree ==
    /\ args.fn = "to_etree"
    /\ args' = [fn |-> "from_etree", tree |-> args.tree]
    /\ doc' = Page_from_etree(args.tree, <<>>)
    /\ UNCHANGED <<page, flt, res>>

\* PageXML.from_xml(fp) of the file to_xml wrote
CallFromXml ==
    /\ args.fn = "to_xml"
    /\ args' = [fn |-> "from_xml", tree |-> Parsed(args.tree)]
    /\ doc' = PageXML_from_etree(Parsed(args.tree))
    /\ UNCHANGED <<page, flt, res>>

NextRoundTrip == CallToEtree \/ CallToXml \/ CallFromEtree \/ CallFromXml

SpecRoundTrip == InitRoundTrip /\ [][NextRoundTrip]_vars

\* C28: a page with a non-empty reading order, serialized (Page.to_etree or
\* PageXML.to_xml) and loaded again (Page.from_etree or PageXML.from_xml),
\* has the same reading order: the same ids in the same order.
C28_ReadingOrderRoundTrip ==
    (args.fn \in {"from_etree", "from_xml"} /\ Len(page.ro) > 0) =>
        /\ doc.raised = "none"
        /\ doc.ro = page.ro

(***************************************************************************)
(* Iterating a container: Page, Element, PageXML and Polygon have the same *)
(* __iter__ and __next__ on their list of children.  The caller runs       *)
(*     for a in obj:                                                       *)
(*         for b in obj: ...                                               *)
(* and n is the attribute __n of the object, <<>> before the first iter(). *)
(***************************************************************************)
MaxChildren == 3

\* __iter__: self.__n = 0; return self
container_iter(n) == <<0>>

\* __next__: the child handed out (<<>> for StopIteration) and __n afterwards
container_next(children, n) ==
    IF n[1] < Len(children)
    THEN [item |-> <<children[n[1] + 1]>>, n |-> <<n[1] + 1>>]
    ELSE [item |-> <<>>, n |-> n]

\* the lists of distinct children of up to MaxChildren items
ChildLists == UNION {DistinctSeqs({"a", "b", "c", "d"}, k) : k \in 0..MaxChildren}

InitIter ==
    /\ page = Page_new
    /\ flt = NoFilter
    /\ \E kind \in {"Page", "Element", "PageXML", "Polygon"}, children \in ChildLists :
          res = [kind |-> kind, children |-> children]
    /\ args = Idle
    /\ doc = NoDoc

\* the outer for statement calls iter(obj)
OuterIter ==
    /\ args.fn = "none"
    /\ args' = [fn |-> "loops", pc |-> "outer"]
    /\ doc' = [n |-> container_iter(<<>>), outer |-> <<>>, inner |-> <<>>]
    /\ UNCHANGED <<page, flt, res>>

\* the outer for statement calls next(): a child starts its body, or
\* StopIteration ends the loop
OuterNext ==
    /\ args.fn = "loops"
    /\ args.pc = "outer"
    /\ LET r == container_next(res.children, doc.n) IN
          IF r.item = <<>>
          THEN /\ args' = [args EXCEPT !.pc = "done"]
               /\ doc' = doc
          ELSE /\ args' = [args EXCEPT !.pc = "body"]
               /\ doc' = [doc EXCEPT !.n = r.n, !.outer = Append(@, r.item[1])]
    /\ UNCHANGED <<page, flt, res>>

\* the inner for statement calls iter(obj) on the same object
InnerIter ==
    /\ args.fn = "loops"
    /\ args.pc = "body"
    /\ args' = [args EXCEPT !.pc = "inner"]
    /\ doc' = [doc EXCEPT !.n = container_iter(@), !.inner = Append(@, <<>>)]
    /\ UNCHANGED <<page, flt, res>>

\* the inner for statement calls next(): a child, or StopIteration gives
\* the control back to the outer for statement
InnerNext ==
    /\ args.fn = "loops"
    /\ args.pc = "inner"
    /\ LET r == container_next(res.children, doc.n) IN
          IF r.item = <<>>
          THEN /\ args' = [args EXCEPT !.pc = "outer"]
               /\ doc' = doc
          ELSE /\ args' = args
               /\ doc' = [doc EXCEPT !.n = r.n, !.inner[Len(doc.inner)] = Append(@, r.item[1])]
    /\ UNCHANGED <<page, flt, res>>

NextIter == OuterIter \/ OuterNext \/ InnerIter \/ InnerNext

SpecIter == InitIter /\ [][NextIter]_vars

\* C29: with an iteration over an object started inside another iteration
\* over the same object, both visit every child once, in list order, and
\* stop: when the outer loop is over it has visited all the children, and
\* every inner loop that is over has visited all the children.
C29_NestedIterations ==
    /\ (args.fn = "loops" /\ args.pc = "done") =>
          /\ doc.outer = res.children
          /\ Len(doc.inner) = Len(res.children)
    /\ (args.fn = "loops" /\ args.pc \in {"outer", "done"}) =>
          \A i \in 1..Len(doc.inner) : doc.inner[i] = res.children

(***************************************************************************)
(* The output files of a batch: segment of octopy/segment.py and           *)
(* shrink_cli derive the path of the document of an input file from the    *)
(* input's name.  A path is its parent directory and its name, a name a    *)
(* string of characters; writing to a path replaces the file that is       *)
(* there.  Every item is taken to be processed without an exception.       *)
(***************************************************************************)
MaxBatch == 3

\* fp.name.split('.')[0] + suffix
output_name(fp, suffix) == Split(fp.name, ".")[1] \o suffix

\* output.joinpath(fn) if output is not None else fp.parent.joinpath(fn)
output_path(fp, output, suffix) ==
    [parent |-> IF output # <<>> THEN output[1] ELSE fp.parent, name |-> output_name(fp, suffix)]

\* xml.to_file(outf), to_xml(outfile): the files of the file system afterwards
write_file(files, outf, content) ==
    {f \in files : f.path # outf} \cup {[path |-> outf, content |-> content]}

\* input files: page.png, page.bin.png, other.png and page without
\* extension, in two directories
InputPaths ==
    [parent : {"scans", "more"},
     name : {<<"p", ".", "p", "n", "g">>, <<"p", ".", "b", "i", "n", ".", "p", "n", "g">>,
             <<"o", ".", "p", "n", "g">>, <<"p">>}]

InitOutput ==
    /\ page = Page_new
    /\ flt = NoFilter
    /\ \E inputs \in DistinctSeqs(InputPaths, MaxBatch) :
          res = [kind |-> "batch", inputs |-> inputs]
    /\ args = Idle
    /\ doc = NoDoc

\* segment(images, output=..., suffix='.xml') or shrink_cli(pagexml,
\* output=..., output_suffix='.xml') is called
StartBatch ==
    \E fn \in {"segment", "shrink_cli"}, output \in {<<>>, <<"out">>} :
        /\ args.fn = "none"
        /\ args' = [fn |-> fn, pc |-> "loop", i |-> 0, output |-> output,
                    suffix |-> <<".", "x", "m", "l">>]
        /\ doc' = [files |-> {}, outf |-> <<>>]
        /\ UNCHANGED <<page, flt, res>>

\* one pass of the loop over the inputs: the document of the input is
\* written to its output path
WriteNext ==
    /\ args.fn \in {"segment", "shrink_cli"}
    /\ args.pc = "loop"
    /\ args.i < Len(res.inputs)
    /\ LET fp == res.inputs[args.i + 1]
           outf == output_path(fp, args.output, args.suffix)
       IN /\ args' = [args EXCEPT !.i = @ + 1]
          /\ doc' = [files |-> write_file(doc.files, outf, fp), outf |-> Append(doc.outf, outf)]
    /\ UNCHANGED <<page, flt, res>>

\* the loop over the inputs is exhausted
BatchDone ==
    /\ args.fn \in {"segment", "shrink_cli"}
    /\ args.pc = "loop"
    /\ args.i = Len(res.inputs)
    /\ args' = [args EXCEPT !.pc = "done"]
    /\ UNCHANGED <<page, flt, res, doc>>

NextOutput == StartBatch \/ WriteNext \/ BatchDone

SpecOutput == InitOutput /\ [][NextOutput]_vars

\* C30: for a batch of pairwise distinct input files written to one output
\* directory with one suffix, the output paths are pairwise distinct, and
\* the document written for an input is still there when the batch is over.
C30_NoOutputOverwritten ==
    (args.fn \in {"segment", "shrink_cli"} /\ args.output # <<>>) =>
        /\ \A i, j \in 1..Len(doc.outf) : i # j => doc.outf[i] # doc.outf[j]
        /\ \A i \in 1..Len(doc.outf) : \E f \in doc.files : f.content = res.inputs[i]

====
